---------------------------- MODULE Spec2Model ----------------------------
(***************************************************************************)
(* A model of the Lox interpreter of this repository: the scanner          *)
(* (src/app/scanner.go), the recursive-descent parser and the resolver     *)
(* (src/app/callable.go) and the driver (src/unnamed/part_004).            *)
(*                                                                         *)
(* Each object of the program is one record-valued variable holding the    *)
(* fields of the Go struct.  What an object writes to stderr is kept in    *)
(* a field "errors" of its record, in the order written.                   *)
(*                                                                         *)
(* Specifications:                                                         *)
(*   SpecScan    Scanner.ScanTokens, one action per loop iteration         *)
(*   Spec        main: the driver, with the scanner as its first stage     *)
(*   SpecExpr    Parser.Parse on one expression                            *)
(*   SpecParse   Parser.ParseStatements, one action per declaration        *)
(*   SpecResolve Resolver.Resolve, one action per top-level statement      *)
(***************************************************************************)
EXTENDS Integers, Sequences, FiniteSets, TLC

VARIABLES
    scanner,    \* the Scanner struct, plus what it wrote to stderr
    scanPc,     \* position in ScanTokens: "loop" | "done"
    main,       \* the driver: command, position, stage flags, stdout, exit code
    parser,     \* the Parser struct, plus what it wrote to stderr
    parseOut,   \* position in Parse / ParseStatements and what it returns
    resolver,   \* the Resolver struct, its position and what it wrote to stderr
    interpreter \* the Interpreter struct, the frames, stdout and stderr

vars == <<scanner, scanPc, main, parser, parseOut, resolver, interpreter>>
parseVars == <<parser, parseOut>>

Nil == <<"nil">>

\* An object that the specification at hand does not run.
Idle == [pc |-> "idle"]

(***************************************************************************)
(* Bounds                                                                  *)
(***************************************************************************)
MaxSrcLen == 4      \* longest source string given to the scanner
MaxFileLen == 2     \* longest file given to the driver
MaxPrints == 2      \* most lines an interpreter run prints in the driver model

\* The bytes source strings are drawn from: a one-character token, the two
\* bytes of the one-or-two character tokens, blank, newline, and two bytes
\* the scanner does not recognise.
Bytes == {"(", "!", "=", " ", "\n", "@", "#"}

RECURSIVE SeqsUpTo(_, _)
SeqsUpTo(S, n) ==
    IF n = 0 THEN {<<>>}
    ELSE LET shorter == SeqsUpTo(S, n - 1)
         IN  shorter \cup {Append(s, x) : s \in {t \in shorter : Len(t) = n - 1}, x \in S}

Sources(n) == SeqsUpTo(Bytes, n)

\* The file contents given to the driver.
Files(n) == SeqsUpTo(Bytes, n)

(***************************************************************************)
(* Scanner  (src/app/scanner.go:1-168)                                     *)
(***************************************************************************)
Token(type, lexeme, literal) == [Type |-> type, Lexeme |-> lexeme, Literal |-> literal]

\* The lexeme text source[start:current] as one string.
RECURSIVE Text(_)
Text(chars) == IF chars = <<>> THEN "" ELSE Head(chars) \o Text(Tail(chars))

NewScanner(source) ==
    [source |-> source, tokens |-> <<>>, start |-> 0, current |-> 0,
     line |-> 1, hadError |-> FALSE, errors |-> <<>>]

ScannerIsAtEnd(s) == s.current >= Len(s.source)

\* advance: the byte read; the cursor move is ScannerAdvance.
ScannerAdvanced(s) == [s EXCEPT !.current = @ + 1]
ScannerByte(s) == s.source[s.current + 1]

addToken(s, tokenType, literal) ==
    [s EXCEPT !.tokens =
        Append(@, Token(tokenType, Text(SubSeq(s.source, s.start + 1, s.current)), literal))]

ScannerMatch(s, expected) ==
    IF ScannerIsAtEnd(s) THEN FALSE
    ELSE s.source[s.current + 1] = expected

reportError(s, message, c) ==
    [s EXCEPT !.errors = Append(@, [line |-> s.line, message |-> message, char |-> c,
                                    at |-> s.current - 1]),
              !.hadError = TRUE]

SingleCharType(c) ==
    CASE c = "(" -> "LEFT_PAREN"
      [] c = ")" -> "RIGHT_PAREN"
      [] c = "{" -> "LEFT_BRACE"
      [] c = "}" -> "RIGHT_BRACE"
      [] c = "," -> "COMMA"
      [] c = "." -> "DOT"
      [] c = "-" -> "MINUS"
      [] c = "+" -> "PLUS"
      [] c = ";" -> "SEMICOLON"
      [] c = "*" -> "STAR"

SingleChars == {"(", ")", "{", "}", ",", ".", "-", "+", ";", "*"}

\* scanToken that gives up at the first byte it does not recognise.
scanToken_AbortOnError(s0) ==
    LET c == ScannerByte(s0)
        s == ScannerAdvanced(s0)
    IN  CASE c \in SingleChars -> addToken(s, SingleCharType(c), "null")
          [] c = "!" ->
                IF ScannerMatch(s, "=")
                THEN addToken(ScannerAdvanced(s), "BANG_EQUAL", "null")
                ELSE addToken(s, "BANG", "null")
          [] c = "=" ->
                IF ScannerMatch(s, "=")
                THEN addToken(ScannerAdvanced(s), "EQUAL_EQUAL", "null")
                ELSE addToken(s, "EQUAL", "null")
          [] c \in {" ", "\r", "\t"} -> s
          [] c = "\n" -> [s EXCEPT !.line = @ + 1]
          [] OTHER -> [reportError(s, "Unexpected character: ", c)
                         EXCEPT !.current = Len(s.source)]

\* scanToken, entered with s.start = s.current already set by ScanTokens.
scanToken(s0) ==
    LET c == ScannerByte(s0)
        s == ScannerAdvanced(s0)
    IN  CASE c \in SingleChars -> addToken(s, SingleCharType(c), "null")
          [] c = "!" ->
                IF ScannerMatch(s, "=")
                THEN addToken(ScannerAdvanced(s), "BANG_EQUAL", "null")
                ELSE addToken(s, "BANG", "null")
          [] c = "=" ->
                IF ScannerMatch(s, "=")
                THEN addToken(ScannerAdvanced(s), "EQUAL_EQUAL", "null")
                ELSE addToken(s, "EQUAL", "null")
          [] c \in {" ", "\r", "\t"} -> s
          [] c = "\n" -> [s EXCEPT !.line = @ + 1]
          [] OTHER -> reportError(s, "Unexpected character: ", c)

\* One iteration of the loop of ScanTokens.
ScanLoopBody(s) == scanToken([s EXCEPT !.start = s.current])

\* ScanTokens that returns without the EOF token after a lexical error.
ScanAddEOF_NotAfterError(s) ==
    IF s.hadError THEN s ELSE [s EXCEPT !.tokens = Append(@, Token("EOF", "", "null"))]

\* The end of ScanTokens: the EOF token is appended.
ScanAddEOF(s) == [s EXCEPT !.tokens = Append(@, Token("EOF", "", "null"))]

ScanStep ==
    /\ scanPc = "loop"
    /\ ~ScannerIsAtEnd(scanner)
    /\ scanner' = ScanLoopBody(scanner)
    /\ scanPc' = "loop"

ScanFinish ==
    /\ scanPc = "loop"
    /\ ScannerIsAtEnd(scanner)
    /\ scanner' = ScanAddEOF(scanner)
    /\ scanPc' = "done"

(***************************************************************************)
(* Scanner claims                                                          *)
(***************************************************************************)
\* Bytes that scanToken turns into (part of) a token, and bytes it rejects.
TokenBytes == SingleChars \cup {"!", "="}
SkippedBytes == {" ", "\r", "\t", "\n"}
BadByte(c) == c \notin TokenBytes /\ c \notin SkippedBytes

NewlinesBefore(source, n) == Cardinality({i \in 1..n : source[i] = "\n"})

RECURSIVE Lexemes(_)
Lexemes(tokens) == IF tokens = <<>> THEN "" ELSE Head(tokens).Lexeme \o Lexemes(Tail(tokens))

RECURSIVE Keep(_, _)
Keep(source, S) ==
    IF source = <<>> THEN <<>>
    ELSE IF Head(source) \in S THEN <<Head(source)>> \o Keep(Tail(source), S)
    ELSE Keep(Tail(source), S)

LexemeOfType(type) ==
    CASE type = "BANG" -> "!"
      [] type = "BANG_EQUAL" -> "!="
      [] type = "EQUAL" -> "="
      [] type = "EQUAL_EQUAL" -> "=="
      [] type = "EOF" -> ""
      [] OTHER -> CHOOSE c \in SingleChars : SingleCharType(c) = type

\* C2, state part: the cursor never leaves the source (no read out of range, so
\* no abort), the line counter is 1 + the newlines consumed, every report
\* carries the line of its bad byte, the reports are exactly the bad bytes
\* consumed so far in source order, and the tokens emitted so far are exactly
\* the recognisable bytes consumed so far, in source order, whatever bad bytes
\* lie between them.
C2_State ==
    /\ 0 <= scanner.start /\ scanner.start <= scanner.current
    /\ scanner.current <= Len(scanner.source)
    /\ scanPc = "loop" => ENABLED (ScanStep \/ ScanFinish)
    /\ scanner.line = 1 + NewlinesBefore(scanner.source, scanner.current)
    /\ \A i \in 1..Len(scanner.errors) :
          LET e == scanner.errors[i]
          IN  /\ BadByte(scanner.source[e.at + 1])
              /\ e.char = scanner.source[e.at + 1]
              /\ e.line = 1 + NewlinesBefore(scanner.source, e.at)
    /\ LET consumed == SubSeq(scanner.source, 1, scanner.current)
           emitted == SelectSeq(scanner.tokens, LAMBDA t : t.Type # "EOF")
       IN  /\ [i \in 1..Len(scanner.errors) |-> scanner.errors[i].char]
                = Keep(consumed, {c \in Bytes : BadByte(c)})
           /\ Lexemes(emitted) = Text(Keep(consumed, TokenBytes))
           /\ \A i \in 1..Len(emitted) : emitted[i].Lexeme = LexemeOfType(emitted[i].Type)
    /\ scanner.hadError <=> scanner.errors # <<>>

\* C2: for every source string ScanTokens never aborts; a byte it does not
\* recognise is reported with its line (1 + the newlines consumed before it)
\* and sets hadError; scanning continues, so the recognisable tokens that
\* follow are still emitted in source order; hadError is never cleared.
C2_ScanContinuesAfterError ==
    /\ []C2_State
    /\ [][scanner.hadError => scanner'.hadError]_vars

\* A bad byte on line 2 was reported and a token after it was emitted.
C2_Witness ==
    /\ scanPc = "done"
    /\ \E i \in 1..Len(scanner.errors) :
          /\ scanner.errors[i].line = 2
          /\ \E j \in 1..Len(scanner.source) :
                j > scanner.errors[i].at + 1 /\ scanner.source[j] = "("
    /\ \E k \in 1..Len(scanner.tokens) : scanner.tokens[k].Type = "LEFT_PAREN"

\* C3: for every source string, the empty one and ones with lexical errors
\* included, the sequence ScanTokens returns holds exactly one EOF token, and it
\* is the last one.
C3_ExactlyOneEOFLast ==
    IF scanPc = "done"
    THEN /\ Len(scanner.tokens) >= 1
         /\ \A i \in 1..Len(scanner.tokens) :
               (scanner.tokens[i].Type = "EOF") <=> (i = Len(scanner.tokens))
    ELSE \A i \in 1..Len(scanner.tokens) : scanner.tokens[i].Type # "EOF"

\* ScanTokens returned for a source with a lexical error and a token.
C3_Witness ==
    /\ scanPc = "done"
    /\ scanner.hadError
    /\ Len(scanner.tokens) >= 2

(***************************************************************************)
(* Driver  (src/unnamed/part_004:8-112)                                    *)
(***************************************************************************)
MainIdle == [pc |-> "idle"]

Commands == {"tokenize", "parse", "evaluate", "run"}

\* Token.String, scanner.go:157-159
TokenString(t) == t.Type \o " " \o t.Lexeme \o " " \o t.Literal

Exit(m, code) == [m EXCEPT !.pc = "exit", !.exitCode = code]

\* main up to the creation of the scanner (part_004:12-33).
MainStart ==
    /\ main.pc = "start"
    /\ IF main.nargs < 3 \/ main.command \notin Commands \/ ~main.readOk
       THEN /\ main' = Exit(main, 1)
            /\ UNCHANGED <<scanner, scanPc, parseVars, resolver, interpreter>>
       ELSE /\ main' = [main EXCEPT !.pc = "scan", !.ran = Append(@, "scan")]
            /\ scanner' = NewScanner(main.file)
            /\ scanPc' = "loop"
            /\ UNCHANGED <<parseVars, resolver, interpreter>>

\* scanner.ScanTokens() (part_004:34)
MainScanToken == main.pc = "scan" /\ ScanStep /\ UNCHANGED <<main, parseVars, resolver, interpreter>>
MainScanEOF ==
    /\ main.pc = "scan"
    /\ ScanFinish
    /\ main' = [main EXCEPT !.pc = "scanned"]
    /\ UNCHANGED <<parseVars, resolver, interpreter>>

\* tokenize (part_004:36-43): every token is printed, then the flag is read.
MainTokenize ==
    /\ main.pc = "scanned"
    /\ main.command = "tokenize"
    /\ LET printed == [main EXCEPT !.stdout =
                          @ \o [i \in 1..Len(scanner.tokens) |-> TokenString(scanner.tokens[i])]]
       IN  main' = Exit(printed, IF scanner.hadError THEN 65 ELSE 0)
    /\ UNCHANGED <<scanner, scanPc, parseVars, resolver, interpreter>>

\* parse, evaluate, run: scanner.HasError() is read first (part_004:45, 62, 85),
\* then the parser is built and run (part_004:49-50, 66-67, 89-90).  What the
\* parser finds is an input of this model: its flag, and for Parse whether
\* the expression is nil (Parse returns nil exactly after a recovered panic).
ParseOutcomes ==
    {[hadError |-> FALSE, isNil |-> FALSE],
     [hadError |-> TRUE, isNil |-> TRUE],
     [hadError |-> TRUE, isNil |-> FALSE]}

\* MainParse without the read of scanner.HasError().
MainParse_NoScannerCheck ==
    /\ main.pc = "scanned"
    /\ main.command # "tokenize"
    /\ \E o \in ParseOutcomes :
          main' = [main EXCEPT !.pc = "parsed", !.ran = Append(@, "parse"),
                               !.parserHadError = o.hadError,
                               !.exprNil = o.isNil /\ main.command # "run"]
    /\ UNCHANGED <<scanner, scanPc, parseVars, resolver, interpreter>>

MainParse ==
    /\ main.pc = "scanned"
    /\ main.command # "tokenize"
    /\ IF scanner.hadError
       THEN main' = Exit(main, 65)
       ELSE \E o \in ParseOutcomes :
               main' = [main EXCEPT !.pc = "parsed", !.ran = Append(@, "parse"),
                                    !.parserHadError = o.hadError,
                                    !.exprNil = o.isNil /\ main.command # "run"]
    /\ UNCHANGED <<scanner, scanPc, parseVars, resolver, interpreter>>

\* parser.HasError() (part_004:52, 69, 92) and what follows it.
MainAfterParse ==
    /\ main.pc = "parsed"
    /\ IF main.parserHadError
       THEN main' = Exit(main, 65)
       ELSE CASE main.command = "parse" ->
                    main' = Exit([main EXCEPT !.stdout =
                                     IF main.exprNil THEN @ ELSE Append(@, "ast")], 0)
              [] main.command = "evaluate" ->
                    IF main.exprNil
                    THEN main' = Exit(main, 0)
                    ELSE main' = [main EXCEPT !.pc = "interpret"]
              [] main.command = "run" ->
                    main' = [main EXCEPT !.pc = "resolve"]
    /\ UNCHANGED <<scanner, scanPc, parseVars, resolver, interpreter>>

\* resolver.Resolve(statements) (part_004:99-100); its flag is an input.
MainResolve ==
    /\ main.pc = "resolve"
    /\ \E err \in BOOLEAN :
          main' = [main EXCEPT !.pc = "resolved", !.ran = Append(@, "resolve"),
                               !.resolverHadError = err]
    /\ UNCHANGED <<scanner, scanPc, parseVars, resolver, interpreter>>

\* resolver.HasError() (part_004:102-104)
MainAfterResolve ==
    /\ main.pc = "resolved"
    /\ main' = IF main.resolverHadError THEN Exit(main, 65)
               ELSE [main EXCEPT !.pc = "interpret"]
    /\ UNCHANGED <<scanner, scanPc, parseVars, resolver, interpreter>>

\* interpreter.Evaluate(expr) (part_004:75) or InterpretStatements (part_004:106):
\* the lines `print` writes and the runtime-error flag are inputs.
MainInterpret ==
    /\ main.pc = "interpret"
    /\ \E n \in 0..MaxPrints, err \in BOOLEAN :
          main' = [main EXCEPT !.pc = "interpreted", !.ran = Append(@, "interpret"),
                               !.hadRuntimeError = err,
                               !.stdout = IF main.command = "run"
                                          THEN @ \o [i \in 1..n |-> "print"] ELSE @]
    /\ UNCHANGED <<scanner, scanPc, parseVars, resolver, interpreter>>

\* interpreter.HasRuntimeError() (part_004:77-82, 108-110)
MainAfterInterpret ==
    /\ main.pc = "interpreted"
    /\ main' = IF main.hadRuntimeError THEN Exit(main, 70)
               ELSE IF main.command = "evaluate"
                    THEN Exit([main EXCEPT !.stdout = Append(@, "value")], 0)
                    ELSE Exit(main, 0)
    /\ UNCHANGED <<scanner, scanPc, parseVars, resolver, interpreter>>

InitMain ==
    /\ \E cmd \in Commands \cup {"bogus"}, n \in {2, 3}, ok \in BOOLEAN, src \in Files(MaxFileLen) :
          main = [pc |-> "start", command |-> cmd, nargs |-> n, readOk |-> ok,
                  file |-> src, ran |-> <<>>, stdout |-> <<>>, exitCode |-> -1,
                  parserHadError |-> FALSE, exprNil |-> FALSE,
                  resolverHadError |-> FALSE, hadRuntimeError |-> FALSE]
    /\ scanner = NewScanner(<<>>)
    /\ scanPc = "idle"
    /\ parser = Idle /\ parseOut = Idle /\ resolver = Idle /\ interpreter = Idle

Next ==
    \/ MainStart
    \/ MainScanToken
    \/ MainScanEOF
    \/ MainTokenize
    \/ MainParse
    \/ MainAfterParse
    \/ MainResolve
    \/ MainAfterResolve
    \/ MainInterpret
    \/ MainAfterInterpret

Spec == InitMain /\ [][Next]_vars

(***************************************************************************)
(* Driver claims                                                           *)
(***************************************************************************)
StageRank(stage) ==
    CASE stage = "scan" -> 1
      [] stage = "parse" -> 2
      [] stage = "resolve" -> 3
      [] stage = "interpret" -> 4

StageFlag(stage) ==
    CASE stage = "scan" -> scanner.hadError
      [] stage = "parse" -> main.parserHadError
      [] stage = "resolve" -> main.resolverHadError
      [] stage = "interpret" -> main.hadRuntimeError

StagesOf(command) ==
    CASE command = "tokenize" -> <<"scan">>
      [] command = "parse" -> <<"scan", "parse">>
      [] command = "evaluate" -> <<"scan", "parse", "interpret">>
      [] command = "run" -> <<"scan", "parse", "resolve", "interpret">>

StaticError == scanner.hadError \/ main.parserHadError \/ main.resolverHadError

IsPrefix(s, t) == Len(s) <= Len(t) /\ s = SubSeq(t, 1, Len(s))

\* C1: in every mode the stages run in the order scan, parse, resolve,
\* interpret, and a stage runs only when every stage before it left its error
\* flag clear.  At exit: the code is 65 exactly when the scanner, the parser or
\* the resolver set its flag, and then the interpreter never ran and `print`
\* wrote nothing; it is 70 exactly when the static stages are clean and the
\* interpreter set its runtime-error flag; otherwise it is 0.  In tokenize mode
\* every token, those scanned after a lexical error included, is printed
\* whatever the exit code.
C1_StagesStopAtFirstError ==
    /\ \A i \in 1..Len(main.ran) :
          /\ i < Len(main.ran) => ~StageFlag(main.ran[i])
          /\ i < Len(main.ran) => StageRank(main.ran[i]) < StageRank(main.ran[i + 1])
    /\ main.ran # <<>> => IsPrefix(main.ran, StagesOf(main.command))
    /\ main.pc = "exit" /\ main.ran # <<>> =>
          /\ main.exitCode = 65 <=> StaticError
          /\ main.exitCode = 70 <=> ~StaticError /\ main.hadRuntimeError
          /\ main.exitCode \in {0, 65, 70}
          /\ StaticError =>
                /\ "interpret" \notin {main.ran[i] : i \in 1..Len(main.ran)}
                /\ main.command # "tokenize" => main.stdout = <<>>
                /\ StageFlag(main.ran[Len(main.ran)])
          /\ main.command = "tokenize" =>
                /\ main.stdout = [i \in 1..Len(scanner.tokens) |-> TokenString(scanner.tokens[i])]
                /\ main.stdout[Len(main.stdout)] = "EOF  null"
                /\ Lexemes(scanner.tokens) = Text(Keep(main.file, TokenBytes))

\* A run in which the resolver reported an error: exit 65 after three stages.
C1_Witness ==
    /\ main.pc = "exit"
    /\ main.command = "run"
    /\ main.resolverHadError
    /\ main.exitCode = 65
    /\ main.ran = <<"scan", "parse", "resolve">>

(***************************************************************************)
(* Parser  (src/app/callable.go:171-682)                                   *)
(*                                                                         *)
(* The parser is a recursive descent over p.tokens with the cursor         *)
(* p.current.  Each parsing method is an operator from the parser record   *)
(* to a result [p, node, panic]: the parser record after the call, the     *)
(* node returned, and whether the call ended in panic("parse error")       *)
(* instead of returning.  A panic unwinds every caller up to the recover   *)
(* of declaration or Parse.                                                *)
(*                                                                         *)
(* Expressions and statements are tuples whose first element is the Go     *)
(* type: <<"Binary", left, operator, right>>, <<"Variable", name>>,        *)
(* <<"Var", name, initializer>>, ...; a nil pointer is Nil.  A Literal     *)
(* holds the Go value: <<"bool", "true">>, <<"nil", "nil">>, or, for a     *)
(* NUMBER and for a STRING token alike, the string p.previous().Literal.   *)
(*                                                                         *)
(* Beside the struct's fields the record holds what the parser wrote to    *)
(* stderr (errors), the tokens synchronize skipped (skipped), the          *)
(* assignments whose target was examined (targets), the values of current  *)
(* at which previous() was called (previousAt: the calls of advance and of *)
(* synchronize; the others follow a match that advanced), and current      *)
(* before and after each iteration of the loop of blockStatement           *)
(* (blockSteps).                                                           *)
(***************************************************************************)
\* The one value of an expression over the result of one call:
\* The({e(r) : r \in {call}}) evaluates the call once and is e of its result.
The(S) == CHOOSE x \in S : TRUE

NewParser(tokens) ==
    [tokens |-> tokens, current |-> 0, hadError |-> FALSE,
     errors |-> <<>>, skipped |-> 0, targets |-> <<>>,
     previousAt |-> {}, blockSteps |-> <<>>]

Ok(p, node) == [p |-> p, node |-> node, panic |-> FALSE]
Panic(p) == [p |-> p, node |-> Nil, panic |-> TRUE]

peek(p) == p.tokens[p.current + 1]
previous(p) == p.tokens[p.current]
isAtEnd(p) == peek(p).Type = "EOF"
check(p, tokenType) == IF isAtEnd(p) THEN FALSE ELSE peek(p).Type = tokenType
\* advance: current moves unless the token is EOF, then previous() is called.
advance(p) ==
    IF ~isAtEnd(p) THEN [p EXCEPT !.current = @ + 1, !.previousAt = @ \cup {p.current + 1}]
    ELSE [p EXCEPT !.previousAt = @ \cup {p.current}]
\* match: whether one of the types is next; the parser after it.
matches(p, types) == \E tokenType \in types : check(p, tokenType)
match(p, types) == IF matches(p, types) THEN advance(p) ELSE p

\* error and reportError: the flag is set and a line is written to stderr
\* ("[line 1] Error <where>: <message>").  index is the place of the token.
error(p, index, message) ==
    LET token == p.tokens[index + 1]
    IN  [p EXCEPT !.hadError = TRUE,
                  !.errors = Append(@, [line |-> 1,
                                        where |-> IF token.Type = "EOF" THEN "at end"
                                                  ELSE "at '" \o token.Lexeme \o "'",
                                        message |-> message,
                                        at |-> index])]

\* consume: node is the token consumed.
consume(p, tokenType, message) ==
    IF check(p, tokenType) THEN Ok(advance(p), peek(p))
    ELSE Panic(error(p, p.current, message))

RECURSIVE expression(_), assignment(_), or(_), orLoop(_, _), and(_), andLoop(_, _),
          equality(_), equalityLoop(_, _), comparison(_), comparisonLoop(_, _),
          term(_), termLoop(_, _), factor(_), factorLoop(_, _), unary(_),
          call(_), callLoop(_, _), finishCall(_, _), arguments(_, _), primary(_),
          declaration(_), varDeclaration(_), statement(_), blockStatement(_),
          blockLoop(_, _), ifStatement(_), whileStatement(_), forStatement(_),
          printStatement(_), expressionStatement(_), synchronizeLoop(_)

expression(p) == assignment(p)

\* assignment that builds the Assignment whatever the left-hand side is.
assignment_AnyTarget(p) ==
    The({IF l.panic THEN l
         ELSE IF matches(l.p, {"EQUAL"})
         THEN The({IF v.panic THEN v
                   ELSE Ok(v.p, <<"Assignment",
                                  IF l.node[1] = "Variable" THEN l.node[2] ELSE "?", v.node>>) :
                   v \in {assignment(match(l.p, {"EQUAL"}))}})
         ELSE l :
         l \in {or(p)}})

\* assignment: equals is the place of the `=` token.  A target examined is
\* noted in p.targets with what the call returns for it.
assignment(p) ==
    The({IF l.panic THEN l
         ELSE IF matches(l.p, {"EQUAL"})
         THEN The({IF v.panic THEN v
                   ELSE IF l.node[1] = "Variable"
                   THEN The({Ok([v.p EXCEPT !.targets =
                                     Append(@, [equals |-> l.p.current, target |-> l.node,
                                                value |-> v.node, result |-> result])],
                                result) :
                             result \in {<<"Assignment", l.node[2], v.node>>}})
                   ELSE Ok(error([v.p EXCEPT !.targets =
                                     Append(@, [equals |-> l.p.current, target |-> l.node,
                                                value |-> v.node, result |-> l.node])],
                                 l.p.current, "Invalid assignment target."),
                           l.node) :
                   v \in {assignment(match(l.p, {"EQUAL"}))}})
         ELSE l :
         l \in {or(p)}})

\* The loop of or / and / equality / comparison / term / factor: expr is the
\* tree built so far, operator the token matched.
orLoop(p, expr) ==
    IF matches(p, {"OR"})
    THEN The({IF right.panic THEN right
              ELSE orLoop(right.p, <<"Logical", expr, peek(p).Type, right.node>>) :
              right \in {and(advance(p))}})
    ELSE Ok(p, expr)

or(p) == The({IF l.panic THEN l ELSE orLoop(l.p, l.node) : l \in {and(p)}})

andLoop(p, expr) ==
    IF matches(p, {"AND"})
    THEN The({IF right.panic THEN right
              ELSE andLoop(right.p, <<"Logical", expr, peek(p).Type, right.node>>) :
              right \in {equality(advance(p))}})
    ELSE Ok(p, expr)

and(p) == The({IF l.panic THEN l ELSE andLoop(l.p, l.node) : l \in {equality(p)}})

equalityLoop(p, expr) ==
    IF matches(p, {"EQUAL_EQUAL", "BANG_EQUAL"})
    THEN The({IF right.panic THEN right
              ELSE equalityLoop(right.p, <<"Binary", expr, peek(p).Type, right.node>>) :
              right \in {comparison(advance(p))}})
    ELSE Ok(p, expr)

equality(p) == The({IF l.panic THEN l ELSE equalityLoop(l.p, l.node) : l \in {comparison(p)}})

comparisonLoop(p, expr) ==
    IF matches(p, {"GREATER", "GREATER_EQUAL", "LESS", "LESS_EQUAL"})
    THEN The({IF right.panic THEN right
              ELSE comparisonLoop(right.p, <<"Binary", expr, peek(p).Type, right.node>>) :
              right \in {term(advance(p))}})
    ELSE Ok(p, expr)

comparison(p) == The({IF l.panic THEN l ELSE comparisonLoop(l.p, l.node) : l \in {term(p)}})

\* The loop of term nesting to the right: the right operand is a whole term.
termLoop_NestRight(p, expr) ==
    IF matches(p, {"PLUS", "MINUS"})
    THEN The({IF right.panic THEN right
              ELSE Ok(right.p, <<"Binary", expr, peek(p).Type, right.node>>) :
              right \in {term(advance(p))}})
    ELSE Ok(p, expr)

termLoop(p, expr) ==
    IF matches(p, {"PLUS", "MINUS"})
    THEN The({IF right.panic THEN right
              ELSE termLoop(right.p, <<"Binary", expr, peek(p).Type, right.node>>) :
              right \in {factor(advance(p))}})
    ELSE Ok(p, expr)

term(p) == The({IF l.panic THEN l ELSE termLoop(l.p, l.node) : l \in {factor(p)}})

factorLoop(p, expr) ==
    IF matches(p, {"STAR", "SLASH"})
    THEN The({IF right.panic THEN right
              ELSE factorLoop(right.p, <<"Binary", expr, peek(p).Type, right.node>>) :
              right \in {unary(advance(p))}})
    ELSE Ok(p, expr)

factor(p) == The({IF l.panic THEN l ELSE factorLoop(l.p, l.node) : l \in {unary(p)}})

\* unary taking a whole equality as its operand.
unary_LooseOperand(p) ==
    IF matches(p, {"BANG", "MINUS"})
    THEN The({IF right.panic THEN right
              ELSE Ok(right.p, <<"Unary", peek(p).Type, right.node>>) :
              right \in {equality(advance(p))}})
    ELSE call(p)

unary(p) ==
    IF matches(p, {"BANG", "MINUS"})
    THEN The({IF right.panic THEN right
              ELSE Ok(right.p, <<"Unary", peek(p).Type, right.node>>) :
              right \in {unary(advance(p))}})
    ELSE call(p)

callLoop(p, expr) ==
    IF matches(p, {"LEFT_PAREN"})
    THEN The({IF c.panic THEN c ELSE callLoop(c.p, c.node) :
              c \in {finishCall(advance(p), expr)}})
    ELSE Ok(p, expr)

call(p) == The({IF l.panic THEN l ELSE callLoop(l.p, l.node) : l \in {primary(p)}})

\* The argument loop of finishCall: node is the list of arguments.
arguments(p, args) ==
    The({IF a.panic THEN a
         ELSE IF matches(a.p, {"COMMA"})
         THEN arguments(advance(a.p), Append(args, a.node))
         ELSE Ok(a.p, Append(args, a.node)) :
         a \in {expression(p)}})

finishCall(p, callee) ==
    The({IF args.panic THEN args
         ELSE The({IF paren.panic THEN paren
                   ELSE Ok(paren.p, <<"Call", callee, args.node>>) :
                   paren \in {consume(args.p, "RIGHT_PAREN", "Expect ')' after arguments.")}}) :
         args \in {IF ~check(p, "RIGHT_PAREN") THEN arguments(p, <<>>) ELSE Ok(p, <<>>)}})

primary(p) ==
    CASE matches(p, {"TRUE"}) -> Ok(advance(p), <<"Literal", <<"bool", "true">>>>)
      [] matches(p, {"FALSE"}) -> Ok(advance(p), <<"Literal", <<"bool", "false">>>>)
      [] matches(p, {"NIL"}) -> Ok(advance(p), <<"Literal", <<"nil", "nil">>>>)
      [] matches(p, {"NUMBER"}) -> Ok(advance(p), <<"Literal", <<"string", peek(p).Literal>>>>)
      [] matches(p, {"STRING"}) -> Ok(advance(p), <<"Literal", <<"string", peek(p).Literal>>>>)
      [] matches(p, {"IDENTIFIER"}) -> Ok(advance(p), <<"Variable", peek(p).Lexeme>>)
      [] matches(p, {"LEFT_PAREN"}) ->
            The({IF e.panic THEN e
                 ELSE The({IF paren.panic THEN paren
                           ELSE Ok(paren.p, <<"Grouping", e.node>>) :
                           paren \in {consume(e.p, "RIGHT_PAREN",
                                              "Expect ')' after expression.")}}) :
                 e \in {expression(advance(p))}})
      [] OTHER -> Panic(error(p, p.current, "Expect expression."))

\* Parse: the panic is recovered and nil returned.
Parse(p) == The({IF e.panic THEN Ok(e.p, Nil) ELSE e : e \in {expression(p)}})

SyncKeywords == {"CLASS", "FUN", "VAR", "FOR", "IF", "WHILE", "PRINT", "RETURN"}

\* The loop of synchronize.  previous() with current = 0 is an index out of
\* range in Go; here the call is kept in previousAt and the loop goes on.
synchronizeLoop(p) ==
    IF isAtEnd(p) THEN p
    ELSE The({IF q.current > 0 /\ previous(q).Type = "SEMICOLON" THEN q
              ELSE IF peek(q).Type \in SyncKeywords THEN q
              ELSE synchronizeLoop(advance(q)) :
              q \in {[p EXCEPT !.previousAt = @ \cup {p.current}]}})

\* synchronize without the advance before its loop.
synchronize_NoAdvance(p) ==
    The({[q EXCEPT !.skipped = @ + (q.current - p.current)] :
         q \in {synchronizeLoop(p)}})

synchronize(p) ==
    The({[q EXCEPT !.skipped = @ + (q.current - p.current)] :
         q \in {synchronizeLoop(advance(p))}})

\* declaration without the recover: the panic reaches the caller.
declaration_NoRecover(p) ==
    IF matches(p, {"VAR"}) THEN varDeclaration(advance(p)) ELSE statement(p)

\* declaration: a panic of the declaration is recovered, the parser
\* synchronizes, and nil is returned.
declaration(p) ==
    The({IF d.panic THEN Ok(synchronize(d.p), Nil) ELSE d :
         d \in {IF matches(p, {"VAR"}) THEN varDeclaration(advance(p)) ELSE statement(p)}})

varDeclaration(p) ==
    The({IF name.panic THEN name
         ELSE The({IF init.panic THEN init
                   ELSE The({IF semi.panic THEN semi
                             ELSE Ok(semi.p, <<"Var", name.node.Lexeme, init.node>>) :
                             semi \in {consume(init.p, "SEMICOLON",
                                               "Expect ';' after variable declaration.")}}) :
                   init \in {IF matches(name.p, {"EQUAL"}) THEN expression(advance(name.p))
                             ELSE Ok(name.p, Nil)}}) :
         name \in {consume(p, "IDENTIFIER", "Expect variable name.")}})

statement(p) ==
    CASE matches(p, {"PRINT"}) -> printStatement(advance(p))
      [] matches(p, {"FOR"}) -> forStatement(advance(p))
      [] matches(p, {"IF"}) -> ifStatement(advance(p))
      [] matches(p, {"WHILE"}) -> whileStatement(advance(p))
      [] matches(p, {"LEFT_BRACE"}) -> blockStatement(advance(p))
      [] OTHER -> expressionStatement(p)

\* The loop of blockStatement: node is the list of statements.
blockLoop(p, statements) ==
    IF ~check(p, "RIGHT_BRACE") /\ ~isAtEnd(p)
    THEN The({IF d.panic THEN d
              ELSE blockLoop([d.p EXCEPT !.blockSteps = Append(@, <<p.current, d.p.current>>)],
                             IF d.node # Nil THEN Append(statements, d.node)
                             ELSE statements) :
              d \in {declaration(p)}})
    ELSE Ok(p, statements)

blockStatement(p) ==
    The({IF body.panic THEN body
         ELSE The({IF brace.panic THEN brace ELSE Ok(brace.p, <<"Block", body.node>>) :
                   brace \in {consume(body.p, "RIGHT_BRACE", "Expect '}' after block.")}}) :
         body \in {blockLoop(p, <<>>)}})

ifStatement(p) ==
    The({IF open.panic THEN open ELSE
    The({IF condition.panic THEN condition ELSE
    The({IF close.panic THEN close ELSE
    The({IF thenBranch.panic THEN thenBranch ELSE
    The({IF elseBranch.panic THEN elseBranch
         ELSE Ok(elseBranch.p, <<"If", condition.node, thenBranch.node, elseBranch.node>>) :
         elseBranch \in {IF matches(thenBranch.p, {"ELSE"})
                         THEN statement(advance(thenBranch.p))
                         ELSE Ok(thenBranch.p, Nil)}}) :
         thenBranch \in {statement(close.p)}}) :
         close \in {consume(condition.p, "RIGHT_PAREN", "Expect ')' after if condition.")}}) :
         condition \in {expression(open.p)}}) :
         open \in {consume(p, "LEFT_PAREN", "Expect '(' after 'if'.")}})

whileStatement(p) ==
    The({IF open.panic THEN open ELSE
    The({IF condition.panic THEN condition ELSE
    The({IF close.panic THEN close ELSE
    The({IF body.panic THEN body
         ELSE Ok(body.p, <<"While", condition.node, body.node>>) :
         body \in {statement(close.p)}}) :
         close \in {consume(condition.p, "RIGHT_PAREN", "Expect ')' after condition.")}}) :
         condition \in {expression(open.p)}}) :
         open \in {consume(p, "LEFT_PAREN", "Expect '(' after 'while'.")}})

\* forStatement with the increment placed before the body.
Desugar_IncrementFirst(initializer, condition, increment, body) ==
    The({IF initializer # Nil THEN <<"Block", <<initializer, loop>>>> ELSE loop :
         loop \in {<<"While",
                     IF condition = Nil THEN <<"Literal", <<"bool", "true">>>> ELSE condition,
                     IF increment # Nil
                     THEN <<"Block", <<<<"Expression", increment>>, body>>>>
                     ELSE body>>}})

\* The desugaring at the end of forStatement, of the clauses parsed.
Desugar(initializer, condition, increment, body) ==
    The({IF initializer # Nil THEN <<"Block", <<initializer, loop>>>> ELSE loop :
         loop \in {<<"While",
                     IF condition = Nil THEN <<"Literal", <<"bool", "true">>>> ELSE condition,
                     IF increment # Nil
                     THEN <<"Block", <<body, <<"Expression", increment>>>>>>
                     ELSE body>>}})

forStatement(p) ==
    The({IF open.panic THEN open ELSE
    The({IF initializer.panic THEN initializer ELSE
    The({IF condition.panic THEN condition ELSE
    The({IF semi.panic THEN semi ELSE
    The({IF increment.panic THEN increment ELSE
    The({IF close.panic THEN close ELSE
    The({IF body.panic THEN body
         ELSE Ok(body.p, Desugar(initializer.node, condition.node, increment.node, body.node)) :
         body \in {statement(close.p)}}) :
         close \in {consume(increment.p, "RIGHT_PAREN", "Expect ')' after for clauses.")}}) :
         increment \in {IF ~check(semi.p, "RIGHT_PAREN") THEN expression(semi.p)
                        ELSE Ok(semi.p, Nil)}}) :
         semi \in {consume(condition.p, "SEMICOLON", "Expect ';' after loop condition.")}}) :
         condition \in {IF ~check(initializer.p, "SEMICOLON") THEN expression(initializer.p)
                        ELSE Ok(initializer.p, Nil)}}) :
         initializer \in {CASE matches(open.p, {"SEMICOLON"}) -> Ok(advance(open.p), Nil)
                            [] matches(open.p, {"VAR"}) -> varDeclaration(advance(open.p))
                            [] OTHER -> expressionStatement(open.p)}}) :
         open \in {consume(p, "LEFT_PAREN", "Expect '(' after 'for'.")}})

printStatement(p) ==
    The({IF e.panic THEN e
         ELSE The({IF semi.panic THEN semi ELSE Ok(semi.p, <<"Print", e.node>>) :
                   semi \in {consume(e.p, "SEMICOLON", "Expect ';' after value.")}}) :
         e \in {expression(p)}})

expressionStatement(p) ==
    The({IF e.panic THEN e
         ELSE The({IF semi.panic THEN semi ELSE Ok(semi.p, <<"Expression", e.node>>) :
                   semi \in {consume(e.p, "SEMICOLON", "Expect ';' after expression.")}}) :
         e \in {expression(p)}})

(***************************************************************************)
(* Token lists given to the parser.  The scanner ends every list with one  *)
(* EOF token (ScanAddEOF).                                                 *)
(***************************************************************************)
MaxOps == 2         \* most operators in an expression given to Parse

Lexeme(type) ==
    CASE type = "LEFT_PAREN" -> "(" [] type = "RIGHT_PAREN" -> ")"
      [] type = "LEFT_BRACE" -> "{" [] type = "RIGHT_BRACE" -> "}"
      [] type = "COMMA" -> "," [] type = "SEMICOLON" -> ";"
      [] type = "MINUS" -> "-" [] type = "PLUS" -> "+"
      [] type = "STAR" -> "*" [] type = "SLASH" -> "/"
      [] type = "BANG" -> "!" [] type = "BANG_EQUAL" -> "!="
      [] type = "EQUAL" -> "=" [] type = "EQUAL_EQUAL" -> "=="
      [] type = "LESS" -> "<" [] type = "GREATER" -> ">"
      [] type = "AND" -> "and" [] type = "OR" -> "or"
      [] type = "PRINT" -> "print" [] type = "VAR" -> "var"
      [] type = "FOR" -> "for" [] type = "IF" -> "if" [] type = "WHILE" -> "while"
      [] type = "ELSE" -> "else"
      [] type = "EOF" -> ""

Tok(type) == Token(type, Lexeme(type), "null")
Ident(name) == Token("IDENTIFIER", name, "null")
Number(lexeme, literal) == Token("NUMBER", lexeme, literal)
EOFToken == Tok("EOF")

BinaryOperators == {"EQUAL", "OR", "AND", "EQUAL_EQUAL", "LESS", "MINUS", "PLUS", "STAR"}
PrefixOperators == {"BANG", "MINUS"}
Atoms == {<<"a">>, <<"1.0">>}

\* The well-formed expressions with n operators (a call, a grouping and each
\* further argument count as one), each token written as its type, its name
\* or its value.
RECURSIVE ExprGen(_)
ExprGen(n) ==
    IF n = 0 THEN Atoms
    ELSE LET Pairs(m) == UNION {ExprGen(i) \X ExprGen(m - i) : i \in 0..m}
         IN  {lr[1] \o <<op>> \o lr[2] : lr \in Pairs(n - 1), op \in BinaryOperators}
             \cup {<<op>> \o e : op \in PrefixOperators, e \in ExprGen(n - 1)}
             \cup {<<"LEFT_PAREN">> \o e \o <<"RIGHT_PAREN">> : e \in ExprGen(n - 1)}
             \cup {e \o <<"LEFT_PAREN", "RIGHT_PAREN">> : e \in ExprGen(n - 1)}
             \cup {lr[1] \o <<"LEFT_PAREN">> \o lr[2] \o <<"RIGHT_PAREN">> :
                     lr \in Pairs(n - 1)}
             \cup (IF n < 2 THEN {}
                   ELSE {lr[1] \o <<"LEFT_PAREN">> \o lr[2] \o <<"COMMA", "b", "RIGHT_PAREN">> :
                           lr \in Pairs(n - 2)})

Expressions(most) == UNION {ExprGen(n) : n \in 0..most}

TokenOfKey(key) ==
    CASE key \in {"a", "b"} -> Ident(key)
      [] key = "1.0" -> Number("1", "1.0")
      [] OTHER -> Tok(key)

\* The token list the scanner hands over for the tokens written as keys.
Tokens(keys) == [i \in 1..Len(keys) |-> TokenOfKey(keys[i])] \o <<EOFToken>>

(***************************************************************************)
(* Expression specification: Parse (callable.go:194-203) on the tokens of  *)
(* one expression.                                                         *)
(***************************************************************************)
InitExpr ==
    /\ \E keys \in Expressions(MaxOps) : parser = NewParser(Tokens(keys))
    /\ parseOut = [pc |-> "start", expr |-> Nil]
    /\ scanner = NewScanner(<<>>) /\ scanPc = "idle" /\ main = MainIdle /\ resolver = Idle /\ interpreter = Idle

ParseExpression ==
    /\ parseOut.pc = "start"
    /\ \E r \in {Parse(parser)} :
          /\ parser' = r.p
          /\ parseOut' = [pc |-> "done", expr |-> r.node]
    /\ UNCHANGED <<scanner, scanPc, main, resolver, interpreter>>

NextExpr == ParseExpression

SpecExpr == InitExpr /\ [][NextExpr]_vars

(***************************************************************************)
(* Claims about expressions                                                *)
(***************************************************************************)
\* The precedence level of an operator token and of a tree's top operator,
\* loosest first.
LevelOfOperator(type) ==
    CASE type = "EQUAL" -> 1
      [] type = "OR" -> 2
      [] type = "AND" -> 3
      [] type \in {"EQUAL_EQUAL", "BANG_EQUAL"} -> 4
      [] type \in {"GREATER", "GREATER_EQUAL", "LESS", "LESS_EQUAL"} -> 5
      [] type \in {"PLUS", "MINUS"} -> 6
      [] type \in {"STAR", "SLASH"} -> 7

Level(e) ==
    CASE e[1] = "Assignment" -> 1
      [] e[1] \in {"Logical", "Binary"} -> LevelOfOperator(e[3])
      [] e[1] = "Unary" -> 8
      [] e[1] = "Call" -> 9
      [] OTHER -> 10

RECURSIVE SubExprs(_)
SubExprs(e) ==
    {e} \cup
    CASE e[1] \in {"Logical", "Binary"} -> SubExprs(e[2]) \cup SubExprs(e[4])
      [] e[1] = "Unary" -> SubExprs(e[3])
      [] e[1] = "Grouping" -> SubExprs(e[2])
      [] e[1] = "Assignment" -> SubExprs(e[3])
      [] e[1] = "Call" -> SubExprs(e[2]) \cup UNION {SubExprs(e[3][i]) : i \in 1..Len(e[3])}
      [] OTHER -> {}

\* The operands of a node that no parenthesis or comma delimits.
Operands(e) ==
    CASE e[1] \in {"Logical", "Binary"} -> {e[2], e[4]}
      [] e[1] = "Unary" -> {e[3]}
      [] e[1] = "Assignment" -> {e[3]}
      [] e[1] = "Call" -> {e[2]}
      [] OTHER -> {}

\* What a token is to the tree: its type, or its name, or its value.
Key(token) ==
    CASE token.Type = "IDENTIFIER" -> token.Lexeme
      [] token.Type \in {"NUMBER", "STRING"} -> token.Literal
      [] OTHER -> token.Type

\* The tokens a tree is written with, in order.
RECURSIVE Unparse(_), UnparseArgs(_)
Unparse(e) ==
    CASE e[1] \in {"Logical", "Binary"} -> Unparse(e[2]) \o <<e[3]>> \o Unparse(e[4])
      [] e[1] = "Unary" -> <<e[2]>> \o Unparse(e[3])
      [] e[1] = "Grouping" -> <<"LEFT_PAREN">> \o Unparse(e[2]) \o <<"RIGHT_PAREN">>
      [] e[1] = "Assignment" -> <<e[2], "EQUAL">> \o Unparse(e[3])
      [] e[1] = "Call" -> Unparse(e[2]) \o <<"LEFT_PAREN">> \o UnparseArgs(e[3])
                             \o <<"RIGHT_PAREN">>
      [] e[1] = "Variable" -> <<e[2]>>
      [] e[1] = "Literal" -> <<e[2][2]>>
UnparseArgs(args) ==
    IF args = <<>> THEN <<>>
    ELSE IF Len(args) = 1 THEN Unparse(args[1])
    ELSE Unparse(args[1]) \o <<"COMMA">> \o UnparseArgs(Tail(args))

InputKeys == [i \in 1..(Len(parser.tokens) - 1) |-> Key(parser.tokens[i])]

Leaf(token) ==
    IF token.Type = "IDENTIFIER" THEN <<"Variable", token.Lexeme>>
    ELSE <<"Literal", <<"string", token.Literal>>>>
Node(left, operator, right) ==
    <<IF operator \in {"OR", "AND"} THEN "Logical" ELSE "Binary", left, operator, right>>

\* The input is x o1 y o2 z with both operators of one precedence level.
IsChain ==
    /\ Len(parser.tokens) = 6
    /\ \A i \in {1, 3, 5} : parser.tokens[i].Type \in {"IDENTIFIER", "NUMBER"}
    /\ \A i \in {2, 4} : parser.tokens[i].Type \in BinaryOperators
    /\ LevelOfOperator(parser.tokens[2].Type) = LevelOfOperator(parser.tokens[4].Type)
ChainLevel == LevelOfOperator(parser.tokens[2].Type)
NestedLeft ==
    Node(Node(Leaf(parser.tokens[1]), parser.tokens[2].Type, Leaf(parser.tokens[3])),
         parser.tokens[4].Type, Leaf(parser.tokens[5]))
NestedRight ==
    Node(Leaf(parser.tokens[1]), parser.tokens[2].Type,
         Node(Leaf(parser.tokens[3]), parser.tokens[4].Type, Leaf(parser.tokens[5])))
AssignedRight ==
    <<"Assignment", parser.tokens[1].Lexeme,
      <<"Assignment", parser.tokens[3].Lexeme, Leaf(parser.tokens[5])>>>>
ParsedWithoutError == parseOut.pc = "done" /\ ~parser.hadError /\ parseOut.expr # Nil

\* C4 as stated: assignment and the logical operators `and` and `or` nest
\* to the right, the operators of equality, comparison, term and factor
\* nest to the left: x o1 y o2 z is x o1 (y o2 z) for `=`, `or`, `and`
\* and (x o1 y) o2 z for the others.
C4_LogicalNestsRight ==
    (ParsedWithoutError /\ IsChain) =>
        parseOut.expr = IF ChainLevel = 1 THEN AssignedRight
                        ELSE IF ChainLevel \in {2, 3} THEN NestedRight
                        ELSE NestedLeft

\* C4, amended: assignment nests to the right (a = b = c is a = (b = c));
\* every other binary operator, `and` and `or` included, nests to the left:
\* x o1 y o2 z is (x o1 y) o2 z, and in every tree the right operand of a
\* Binary or Logical node is never an unparenthesised node of the same
\* level, while the value of an Assignment may be an Assignment.
C4_OnlyAssignmentNestsRight ==
    ParsedWithoutError =>
        /\ IsChain => parseOut.expr = IF ChainLevel = 1 THEN AssignedRight ELSE NestedLeft
        /\ Unparse(parseOut.expr) = InputKeys
        /\ \A e \in SubExprs(parseOut.expr) :
              e[1] \in {"Logical", "Binary"} => Level(e[4]) # Level(e)

\* A chain of two logical operators of one level was parsed.
C4_Witness ==
    /\ ParsedWithoutError /\ IsChain /\ ChainLevel \in {2, 3}
    /\ parseOut.expr[1] = "Logical" /\ parseOut.expr[2][1] = "Logical"

\* C5: operators bind tighter in the order assignment, or, and, equality,
\* comparison, term, factor, unary, call, primary: the tree is a parse of
\* the whole input and no operand of a node is an unparenthesised
\* expression whose top operator belongs to a looser level than the node's.
C5_PrecedenceLadder ==
    ParsedWithoutError =>
        /\ Unparse(parseOut.expr) = InputKeys
        /\ \A e \in SubExprs(parseOut.expr) :
              \A operand \in Operands(e) : Level(operand) >= Level(e)

\* A tighter binary operator that follows a looser one in the input was
\* parsed as its right operand.
C5_Witness ==
    /\ ParsedWithoutError
    /\ parseOut.expr[1] \in {"Logical", "Binary"}
    /\ parseOut.expr[4][1] \in {"Logical", "Binary"}
    /\ Level(parseOut.expr[4]) > Level(parseOut.expr)

(***************************************************************************)
(* Statement specification: ParseStatements (callable.go:206-217), one     *)
(* action per iteration of its loop.  The token lists are every list over  *)
(* a small alphabet, well-formed or not, and the for statements made of    *)
(* a few clauses.                                                          *)
(***************************************************************************)
MaxTokens == 4      \* most tokens before EOF in a list given to ParseStatements

StatementKeys == {"PRINT", "VAR", "a", "1.0", "EQUAL", "SEMICOLON", "LEFT_BRACE", "RIGHT_BRACE"}
TokenLists(n) == SeqsUpTo(StatementKeys, n)

ClauseExpressions == {<<"a">>, <<"1.0">>, <<"a", "EQUAL", "1.0">>, <<"a", "LESS", "1.0">>}
ForInitializers ==
    {<<"SEMICOLON">>, <<"VAR", "a", "SEMICOLON">>}
    \cup {<<"VAR", "a", "EQUAL">> \o e \o <<"SEMICOLON">> : e \in ClauseExpressions}
    \cup {e \o <<"SEMICOLON">> : e \in ClauseExpressions}
ForConditions == {<<>>} \cup ClauseExpressions
ForIncrements == {<<>>} \cup ClauseExpressions
ForBodies ==
    {<<"PRINT">> \o e \o <<"SEMICOLON">> : e \in ClauseExpressions}
    \cup {e \o <<"SEMICOLON">> : e \in ClauseExpressions}
    \cup {<<"LEFT_BRACE", "RIGHT_BRACE">>,
          <<"LEFT_BRACE", "PRINT", "a", "SEMICOLON", "RIGHT_BRACE">>,
          <<"FOR", "LEFT_PAREN", "SEMICOLON", "SEMICOLON", "RIGHT_PAREN", "a", "SEMICOLON">>,
          <<"IF", "LEFT_PAREN", "a", "RIGHT_PAREN", "a", "SEMICOLON", "ELSE", "PRINT", "a",
            "SEMICOLON">>,
          <<"WHILE", "LEFT_PAREN", "a", "RIGHT_PAREN", "a", "SEMICOLON">>}
ForClauses ==
    [kind : {"for"}, initializer : ForInitializers, condition : ForConditions,
     increment : ForIncrements, body : ForBodies]
ForKeys(c) ==
    <<"FOR", "LEFT_PAREN">> \o c.initializer \o c.condition \o <<"SEMICOLON">>
        \o c.increment \o <<"RIGHT_PAREN">> \o c.body

\* parseOut.clauses tells the clauses a for statement was made of.
InitParse ==
    /\ \/ \E keys \in TokenLists(MaxTokens) :
             /\ parser = NewParser(Tokens(keys))
             /\ parseOut = [pc |-> "loop", statements |-> <<>>, declarations |-> <<>>,
                            clauses |-> [kind |-> "none"]]
       \/ \E c \in ForClauses :
             /\ parser = NewParser(Tokens(ForKeys(c)))
             /\ parseOut = [pc |-> "loop", statements |-> <<>>, declarations |-> <<>>,
                            clauses |-> c]
    /\ scanner = NewScanner(<<>>) /\ scanPc = "idle" /\ main = MainIdle /\ resolver = Idle /\ interpreter = Idle

\* One iteration of the loop of ParseStatements: the statement is appended
\* unless it is nil.  parseOut.declarations notes, for each call of
\* declaration, where it began and ended, what it reported and returned.  A
\* panic that reaches ParseStatements ends it without a return.
ParseDeclaration ==
    /\ parseOut.pc = "loop"
    /\ ~isAtEnd(parser)
    /\ \E r \in {declaration(parser)} :
          /\ parser' = r.p
          /\ parseOut' =
                [parseOut EXCEPT
                   !.pc = IF r.panic THEN "panicked" ELSE "loop",
                   !.statements = IF r.node # Nil THEN Append(@, r.node) ELSE @,
                   !.declarations =
                       Append(@, [start |-> parser.current, end |-> r.p.current,
                                  errors |-> SubSeq(r.p.errors, Len(parser.errors) + 1,
                                                    Len(r.p.errors)),
                                  skipped |-> r.p.skipped - parser.skipped,
                                  node |-> r.node])]
    /\ UNCHANGED <<scanner, scanPc, main, resolver, interpreter>>

ParseStatementsReturn ==
    /\ parseOut.pc = "loop"
    /\ isAtEnd(parser)
    /\ parseOut' = [parseOut EXCEPT !.pc = "done"]
    /\ UNCHANGED <<parser, scanner, scanPc, main, resolver, interpreter>>

NextParse == ParseDeclaration \/ ParseStatementsReturn

SpecParse == InitParse /\ [][NextParse]_vars

(***************************************************************************)
(* Claims about statements                                                 *)
(***************************************************************************)
InvalidTarget == "Invalid assignment target."
ReportedAt(index, message) ==
    \E i \in 1..Len(parser.errors) :
        parser.errors[i].at = index /\ parser.errors[i].message = message
OnlyInvalidTargets(errors) == \A i \in 1..Len(errors) : errors[i].message = InvalidTarget

\* The input is the statement x = y ; of two names or numbers.
IsSimpleAssignment ==
    /\ Len(parser.tokens) = 5
    /\ parser.tokens[1].Type \in {"IDENTIFIER", "NUMBER"}
    /\ parser.tokens[2].Type = "EQUAL"
    /\ parser.tokens[3].Type \in {"IDENTIFIER", "NUMBER"}
    /\ parser.tokens[4].Type = "SEMICOLON"

ClauseStatement(keys) == declaration(NewParser(Tokens(keys))).node
ClauseExpression(keys) == Parse(NewParser(Tokens(keys))).node
LiteralTrue == <<"Literal", <<"bool", "true">>>>
Block(statements) == <<"Block", statements>>
While(condition, body) == <<"While", condition, body>>
ForLoop(c) ==
    While(IF c.condition = <<>> THEN LiteralTrue ELSE ClauseExpression(c.condition),
          IF c.increment = <<>> THEN ClauseStatement(c.body)
          ELSE Block(<<ClauseStatement(c.body),
                       <<"Expression", ClauseExpression(c.increment)>>>>))

\* C7: for (I; C; U) B is returned as Block[I, While(C, Block[B,
\* Expression(U)])]: the While condition is the literal true when C is
\* omitted, the While body is B itself when U is omitted, and the result is
\* the While itself when I is omitted.  So the increment is the last
\* statement of the loop body, after B, and the initializer is the first
\* statement of a block that holds nothing but it and the loop.
C7_ForDesugaring ==
    (parseOut.pc = "done" /\ parseOut.clauses.kind = "for") =>
        /\ ~parser.hadError
        /\ parseOut.statements =
              <<IF parseOut.clauses.initializer = <<"SEMICOLON">>
                THEN ForLoop(parseOut.clauses)
                ELSE Block(<<ClauseStatement(parseOut.clauses.initializer),
                             ForLoop(parseOut.clauses)>>)>>

\* A for statement with all three clauses was parsed, and one with none.
C7_Witness ==
    /\ parseOut.pc = "done" /\ parseOut.clauses.kind = "for"
    /\ parseOut.clauses.initializer = <<"VAR", "a", "EQUAL", "1.0", "SEMICOLON">>
    /\ parseOut.clauses.condition = <<"a", "LESS", "1.0">>
    /\ parseOut.clauses.increment = <<"a", "EQUAL", "1.0">>
    /\ parseOut.statements[1][1] = "Block"

\* Whether a statement holds a block, the one place below the top level
\* where declaration is called and recovers from a panic.
RECURSIVE HoldsBlock(_)
HoldsBlock(stmt) ==
    CASE stmt = Nil -> FALSE
      [] stmt[1] = "Block" -> TRUE
      [] stmt[1] = "If" -> HoldsBlock(stmt[3]) \/ HoldsBlock(stmt[4])
      [] stmt[1] = "While" -> HoldsBlock(stmt[3])
      [] OTHER -> FALSE

\* Where synchronize stops: at the end, after a semicolon, or before a
\* keyword that begins a statement.
AtSyncPoint(index) ==
    \/ parser.tokens[index + 1].Type = "EOF"
    \/ index > 0 /\ parser.tokens[index].Type = "SEMICOLON"
    \/ parser.tokens[index + 1].Type \in SyncKeywords

\* What holds of ParseStatements whatever is made of a declaration that
\* reported an error: it returns normally, the flag tells whether anything
\* was reported, the list returned holds the statements the calls of
\* declaration returned, none of them nil, a declaration that reported
\* nothing returned its statement, and after a declaration that returned nil
\* the next one begins at the synchronization point.
RecoveryOfParseStatements ==
    /\ parseOut.pc # "panicked"
    /\ parser.hadError <=> parser.errors # <<>>
    /\ \A i \in 1..Len(parseOut.statements) : parseOut.statements[i] # Nil
    /\ parseOut.statements =
          LET returned == [i \in 1..Len(parseOut.declarations) |->
                              parseOut.declarations[i].node]
          IN  SelectSeq(returned, LAMBDA node : node # Nil)
    /\ \A i \in 1..Len(parseOut.declarations) :
          LET d == parseOut.declarations[i]
          IN  /\ d.start = IF i = 1 THEN 0 ELSE parseOut.declarations[i - 1].end
              /\ d.errors = <<>> => d.node # Nil
              /\ d.node = Nil => d.errors # <<>> /\ AtSyncPoint(d.end)
    /\ parseOut.pc = "done" =>
          /\ parser.current = Len(parser.tokens) - 1
          /\ parseOut.declarations # <<>> =>
                parseOut.declarations[Len(parseOut.declarations)].end = parser.current

\* C8 as stated: ParseStatements returns normally, the flag is set if an
\* error was reported, and the list returned holds no nil and no statement
\* of a declaration in which an error was reported, while the declarations
\* from the synchronization point on are parsed and, if free of errors,
\* included.
C8_NoStatementOfErroneousDeclaration ==
    /\ RecoveryOfParseStatements
    /\ \A i \in 1..Len(parseOut.declarations) :
          parseOut.declarations[i].errors # <<>> => parseOut.declarations[i].node = Nil

\* C8, amended: ParseStatements returns normally, the flag is set if an
\* error was reported, the list returned holds no nil, and the declarations
\* from the synchronization point on are parsed and, if free of errors,
\* included.  The statement of a declaration in which an error was reported
\* is left out exactly if the panic of that error reached the top-level
\* call of declaration; it is included if every error was "Invalid
\* assignment target.", which raises no panic, or if the panic was
\* recovered by the declaration of a block inside the statement.
C8_ParseStatementsRecovers ==
    /\ RecoveryOfParseStatements
    /\ \A i \in 1..Len(parseOut.declarations) :
          LET d == parseOut.declarations[i]
          IN  /\ (d.errors # <<>> /\ d.node # Nil) =>
                    OnlyInvalidTargets(d.errors) \/ HoldsBlock(d.node)
              /\ (d.errors # <<>> /\ ~HoldsBlock(d.node) /\ ~OnlyInvalidTargets(d.errors)) =>
                    d.node = Nil
              /\ d.node = Nil => ~OnlyInvalidTargets(d.errors)

\* A declaration ended in a panic and returned nil, and the declaration that
\* began at the synchronization point was parsed and included.
C8_Witness ==
    /\ parseOut.pc = "done"
    /\ Len(parseOut.declarations) = 2
    /\ parseOut.declarations[1].node = Nil /\ parseOut.declarations[1].skipped >= 1
    /\ parseOut.declarations[2].errors = <<>>
    /\ parseOut.statements = <<parseOut.declarations[2].node>>
    /\ parser.hadError

(***************************************************************************)
(* Resolver  (src/app/callable.go:684-1013)                                *)
(*                                                                         *)
(* A visitor method is an operator from the resolver record and a node to  *)
(* the resolver record after the visit.  A scope is a function from the    *)
(* names declared in it to whether they are defined.  Beside the struct's  *)
(* fields the record holds what the resolver wrote to stderr (errors),     *)
(* the calls of interpreter.resolve (locals), and, for each call of        *)
(* declare and each Variable visited, what the innermost scope held of     *)
(* the name at that moment (declared, visited), and "begin" for each scope *)
(* appended to scopes and "end" for each one cut off, in order (brackets). *)
(***************************************************************************)
EmptyScope == [name \in {} |-> FALSE]
Put(scope, name, ready) ==
    [n \in DOMAIN scope \cup {name} |-> IF n = name THEN ready ELSE scope[n]]

NewResolver ==
    [scopes |-> <<>>, currentFunction |-> "NONE_FUNCTION", currentClass |-> "NONE_CLASS",
     hadError |-> FALSE, errors |-> <<>>, locals |-> <<>>, declared |-> <<>>, visited |-> <<>>,
     brackets |-> <<>>]

beginScope(r) ==
    [r EXCEPT !.scopes = Append(@, EmptyScope), !.brackets = Append(@, "begin")]
endScope(r) ==
    [r EXCEPT !.scopes = SubSeq(@, 1, Len(@) - 1), !.brackets = Append(@, "end")]

\* The state of a name in the innermost scope.
Innermost(r, name) ==
    IF Len(r.scopes) = 0 THEN "global"
    ELSE IF name \notin DOMAIN r.scopes[Len(r.scopes)] THEN "absent"
    ELSE IF r.scopes[Len(r.scopes)][name] THEN "defined" ELSE "declared"

resolverError(r, lexeme, message) ==
    [r EXCEPT !.hadError = TRUE,
              !.errors = Append(@, [lexeme |-> lexeme, message |-> message])]

\* declare that does not look for the name in the scope.
declare_NoCheck(r, name) ==
    The({IF Len(r.scopes) = 0 THEN r1
         ELSE [r1 EXCEPT !.scopes[Len(r.scopes)] = Put(@, name, FALSE)] :
         r1 \in {[r EXCEPT !.declared =
                              Append(@, [name |-> name, state |-> Innermost(r, name)])]}})

declare(r, name) ==
    The({IF Len(r.scopes) = 0 THEN r1
         ELSE IF name \in DOMAIN r.scopes[Len(r.scopes)]
         THEN resolverError(r1, name, "Already a variable with this name in this scope.")
         ELSE [r1 EXCEPT !.scopes[Len(r.scopes)] = Put(@, name, FALSE)] :
         r1 \in {[r EXCEPT !.declared =
                              Append(@, [name |-> name, state |-> Innermost(r, name)])]}})

define(r, name) ==
    IF Len(r.scopes) = 0 THEN r
    ELSE [r EXCEPT !.scopes[Len(r.scopes)] = Put(@, name, TRUE)]

\* resolveLocal that takes the outermost scope that holds the name.
resolveLocal_Outermost(r, expr, name) ==
    The({IF holding = {} THEN r
         ELSE [r EXCEPT !.locals =
                   Append(@, [expr |-> expr,
                              depth |-> Len(r.scopes) -
                                        (CHOOSE i \in holding : \A j \in holding : i <= j)])] :
         holding \in {{i \in 1..Len(r.scopes) : name \in DOMAIN r.scopes[i]}}})

\* resolveLocal: the innermost scope that holds the name, if any, gives the
\* depth handed to interpreter.resolve.
resolveLocal(r, expr, name) ==
    The({IF holding = {} THEN r
         ELSE [r EXCEPT !.locals =
                   Append(@, [expr |-> expr,
                              depth |-> Len(r.scopes) -
                                        (CHOOSE i \in holding : \A j \in holding : j <= i)])] :
         holding \in {{i \in 1..Len(r.scopes) : name \in DOMAIN r.scopes[i]}}})

RECURSIVE Resolve(_, _), resolveStmt(_, _), resolveExpr(_, _), resolveExprs(_, _),
          resolveFunction(_, _, _), declareParams(_, _), resolveMethods(_, _)

Resolve(r, statements) ==
    IF statements = <<>> THEN r
    ELSE The({Resolve(r1, Tail(statements)) : r1 \in {resolveStmt(r, Head(statements))}})

\* The loop over the parameters in resolveFunction.
declareParams(r, params) ==
    IF params = <<>> THEN r
    ELSE The({declareParams(define(r1, Head(params)), Tail(params)) :
              r1 \in {declare(r, Head(params))}})

\* resolveFunction that leaves currentFunction as the body had it.
resolveFunction_NoRestore(r, function, functionType) ==
    The({The({The({endScope(r3) : r3 \in {Resolve(r2, function[4])}}) :
              r2 \in {declareParams(r1, function[3])}}) :
         r1 \in {beginScope([r EXCEPT !.currentFunction = functionType])}})

\* function is <<"Function", name, params, body>>.
resolveFunction(r, function, functionType) ==
    The({The({The({[endScope(r3) EXCEPT !.currentFunction = r.currentFunction] :
                   r3 \in {Resolve(r2, function[4])}}) :
              r2 \in {declareParams(r1, function[3])}}) :
         r1 \in {beginScope([r EXCEPT !.currentFunction = functionType])}})

\* VisitBlockStmt without endScope.
VisitBlockStmt_NoEndScope(r, stmt) == Resolve(beginScope(r), stmt[2])

\* stmt is <<"Block", statements>>.
VisitBlockStmt(r, stmt) ==
    The({endScope(r1) : r1 \in {Resolve(beginScope(r), stmt[2])}})

\* stmt is <<"Var", name, initializer>>.
VisitVarStmt(r, stmt) ==
    The({The({define(r2, stmt[2]) :
              r2 \in {IF stmt[3] # Nil THEN resolveExpr(r1, stmt[3]) ELSE r1}}) :
         r1 \in {declare(r, stmt[2])}})

VisitFunctionStmt(r, stmt) ==
    The({resolveFunction(define(r1, stmt[2]), stmt, "FUNCTION") :
         r1 \in {declare(r, stmt[2])}})

\* The loop over the methods in VisitClassStmt.
resolveMethods(r, methods) ==
    IF methods = <<>> THEN r
    ELSE The({The({resolveMethods(endScope(r2), Tail(methods)) :
                   r2 \in {resolveFunction(r1, Head(methods),
                                           IF Head(methods)[2] = "init" THEN "INITIALIZER"
                                           ELSE "METHOD")}}) :
              r1 \in {[beginScope(r) EXCEPT !.scopes[Len(r.scopes) + 1] =
                                                Put(@, "this", TRUE)]}})

\* VisitClassStmt that leaves currentClass as IN_CLASS.
VisitClassStmt_NoRestore(r, stmt) ==
    The({resolveMethods(define(r1, stmt[2]), stmt[3]) :
         r1 \in {declare([r EXCEPT !.currentClass = "IN_CLASS"], stmt[2])}})

\* stmt is <<"Class", name, methods>>.
VisitClassStmt(r, stmt) ==
    The({The({[r2 EXCEPT !.currentClass = r.currentClass] :
              r2 \in {resolveMethods(define(r1, stmt[2]), stmt[3])}}) :
         r1 \in {declare([r EXCEPT !.currentClass = "IN_CLASS"], stmt[2])}})

VisitExpressionStmt(r, stmt) == resolveExpr(r, stmt[2])

VisitIfStmt(r, stmt) ==
    The({The({IF stmt[4] # Nil THEN resolveStmt(r2, stmt[4]) ELSE r2 :
              r2 \in {resolveStmt(r1, stmt[3])}}) :
         r1 \in {resolveExpr(r, stmt[2])}})

VisitPrintStmt(r, stmt) == resolveExpr(r, stmt[2])

\* stmt is <<"Return", value>>.
VisitReturnStmt(r, stmt) ==
    The({IF stmt[2] # Nil
         THEN The({resolveExpr(r2, stmt[2]) :
                   r2 \in {IF r.currentFunction = "INITIALIZER"
                           THEN resolverError(r1, "return",
                                              "Can't return a value from an initializer.")
                           ELSE r1}})
         ELSE r1 :
         r1 \in {IF r.currentFunction = "NONE_FUNCTION"
                 THEN resolverError(r, "return", "Can't return from top-level code.")
                 ELSE r}})

VisitWhileStmt(r, stmt) ==
    The({resolveStmt(r1, stmt[3]) : r1 \in {resolveExpr(r, stmt[2])}})

resolveStmt(r, stmt) ==
    CASE stmt[1] = "Block" -> VisitBlockStmt(r, stmt)
      [] stmt[1] = "Var" -> VisitVarStmt(r, stmt)
      [] stmt[1] = "Function" -> VisitFunctionStmt(r, stmt)
      [] stmt[1] = "Class" -> VisitClassStmt(r, stmt)
      [] stmt[1] = "Expression" -> VisitExpressionStmt(r, stmt)
      [] stmt[1] = "If" -> VisitIfStmt(r, stmt)
      [] stmt[1] = "Print" -> VisitPrintStmt(r, stmt)
      [] stmt[1] = "Return" -> VisitReturnStmt(r, stmt)
      [] stmt[1] = "While" -> VisitWhileStmt(r, stmt)

\* VisitVariableExpr that reports a read of any name of the innermost scope,
\* defined or not.
VisitVariableExpr_AnyState(r, expr) ==
    The({The({resolveLocal(r2, expr, expr[2]) :
              r2 \in {IF /\ Len(r.scopes) > 0
                         /\ expr[2] \in DOMAIN r.scopes[Len(r.scopes)]
                      THEN resolverError(r1, expr[2],
                                         "Can't read local variable in its own initializer.")
                      ELSE r1}}) :
         r1 \in {[r EXCEPT !.visited =
                              Append(@, [name |-> expr[2], state |-> Innermost(r, expr[2])])]}})

\* expr is <<"Variable", name>>.
VisitVariableExpr(r, expr) ==
    The({The({resolveLocal(r2, expr, expr[2]) :
              r2 \in {IF /\ Len(r.scopes) > 0
                         /\ expr[2] \in DOMAIN r.scopes[Len(r.scopes)]
                         /\ ~r.scopes[Len(r.scopes)][expr[2]]
                      THEN resolverError(r1, expr[2],
                                         "Can't read local variable in its own initializer.")
                      ELSE r1}}) :
         r1 \in {[r EXCEPT !.visited =
                              Append(@, [name |-> expr[2], state |-> Innermost(r, expr[2])])]}})

\* expr is <<"This">>.
VisitThisExpr(r, expr) ==
    IF r.currentClass = "NONE_CLASS"
    THEN resolverError(r, "this", "Can't use 'this' outside of a class.")
    ELSE resolveLocal(r, expr, "this")

VisitAssignmentExpr(r, expr) ==
    The({resolveLocal(r1, expr, expr[2]) : r1 \in {resolveExpr(r, expr[3])}})

\* Binary and Logical: left, then right.
VisitBinaryExpr(r, expr) ==
    The({resolveExpr(r1, expr[4]) : r1 \in {resolveExpr(r, expr[2])}})

\* The loop over the arguments in VisitCallExpr.
resolveExprs(r, exprs) ==
    IF exprs = <<>> THEN r
    ELSE The({resolveExprs(r1, Tail(exprs)) : r1 \in {resolveExpr(r, Head(exprs))}})

VisitCallExpr(r, expr) ==
    The({resolveExprs(r1, expr[3]) : r1 \in {resolveExpr(r, expr[2])}})

\* expr is <<"Get", object, name>>.
VisitGetExpr(r, expr) == resolveExpr(r, expr[2])

\* expr is <<"Set", object, name, value>>: the value, then the object.
VisitSetExpr(r, expr) ==
    The({resolveExpr(r1, expr[2]) : r1 \in {resolveExpr(r, expr[4])}})

resolveExpr(r, expr) ==
    CASE expr[1] = "Variable" -> VisitVariableExpr(r, expr)
      [] expr[1] = "This" -> VisitThisExpr(r, expr)
      [] expr[1] = "Assignment" -> VisitAssignmentExpr(r, expr)
      [] expr[1] \in {"Binary", "Logical"} -> VisitBinaryExpr(r, expr)
      [] expr[1] = "Call" -> VisitCallExpr(r, expr)
      [] expr[1] = "Get" -> VisitGetExpr(r, expr)
      [] expr[1] = "Set" -> VisitSetExpr(r, expr)
      [] expr[1] = "Grouping" -> resolveExpr(r, expr[2])
      [] expr[1] = "Literal" -> r
      [] expr[1] = "Unary" -> resolveExpr(r, expr[3])

(***************************************************************************)
(* Resolver specification: Resolve (callable.go:734-738) on a program,     *)
(* one action per statement of the program.  The programs are the lists    *)
(* of statements of a small total weight: a declaration, a print, a        *)
(* block, a function and a class weigh one each, besides what they hold.   *)
(***************************************************************************)
MaxWeight == 3      \* greatest weight of a program given to Resolve

Names == {"a", "b"}
ParamLists == {<<"a">>, <<"b", "b">>}
SimpleStatements ==
    {<<"Var", n, Nil>> : n \in Names}
    \cup {<<"Var", "a", <<"Variable", n>>>> : n \in Names}
    \cup {<<"Print", <<"Variable", "a">>>>}

RECURSIVE StmtGen(_), StmtLists(_), MethodLists(_)
FunctionGen(n) ==
    {<<"Function", "a", params, body>> : params \in ParamLists, body \in StmtLists(n - 1)}
StmtGen(n) ==
    (IF n = 1 THEN SimpleStatements ELSE {<<"Block", body>> : body \in StmtLists(n - 1)})
    \cup FunctionGen(n)
    \cup {<<"Class", "b", methods>> : methods \in MethodLists(n - 1)}
StmtLists(n) ==
    IF n = 0 THEN {<<>>}
    ELSE UNION {{<<s>> \o rest : s \in StmtGen(k), rest \in StmtLists(n - k)} : k \in 1..n}
MethodLists(n) ==
    IF n = 0 THEN {<<>>}
    ELSE UNION {{<<m>> \o rest : m \in FunctionGen(k), rest \in MethodLists(n - k)} : k \in 1..n}

Programs(most) == UNION {StmtLists(n) : n \in 0..most}

\* resolver.r is the Resolver struct.
InitResolve ==
    /\ \E program \in Programs(MaxWeight) :
          resolver = [pc |-> "loop", program |-> program, next |-> 1, r |-> NewResolver]
    /\ scanner = NewScanner(<<>>) /\ scanPc = "idle" /\ main = MainIdle
    /\ parser = Idle /\ parseOut = Idle /\ interpreter = Idle

ResolveStatement ==
    /\ resolver.pc = "loop"
    /\ resolver.next <= Len(resolver.program)
    /\ resolver' = [resolver EXCEPT !.r = resolveStmt(@, resolver.program[resolver.next]),
                                    !.next = @ + 1]
    /\ UNCHANGED <<scanner, scanPc, main, parseVars, interpreter>>

ResolveReturn ==
    /\ resolver.pc = "loop"
    /\ resolver.next > Len(resolver.program)
    /\ resolver' = [resolver EXCEPT !.pc = "done"]
    /\ UNCHANGED <<scanner, scanPc, main, parseVars, interpreter>>

NextResolve == ResolveStatement \/ ResolveReturn

SpecResolve == InitResolve /\ [][NextResolve]_vars

(***************************************************************************)
(* Claims about the resolver                                               *)
(***************************************************************************)
OwnInitializer == "Can't read local variable in its own initializer."
AlreadyDeclared == "Already a variable with this name in this scope."

\* The names the resolver reported with a message, in the order reported.
Reported(message) ==
    LET errors == SelectSeq(resolver.r.errors, LAMBDA e : e.message = message)
    IN  [i \in 1..Len(errors) |-> errors[i].lexeme]

\* The names of the entries of a log whose state is one of a set, in order.
NamesIn(log, states) ==
    LET entries == SelectSeq(log, LAMBDA e : e.state \in states)
    IN  [i \in 1..Len(entries) |-> entries[i].name]

\* The number of Variable expressions and of declared names in statements
\* (a method's name is not declared).
RECURSIVE VariablesIn(_), DeclarationsIn(_)
VariablesIn(statements) ==
    IF statements = <<>> THEN 0
    ELSE LET stmt == Head(statements)
         IN  VariablesIn(Tail(statements)) +
             CASE stmt[1] = "Var" -> IF stmt[3] = Nil THEN 0 ELSE 1
               [] stmt[1] = "Print" -> 1
               [] stmt[1] = "Block" -> VariablesIn(stmt[2])
               [] stmt[1] = "Function" -> VariablesIn(stmt[4])
               [] stmt[1] = "Class" -> VariablesIn(stmt[3])
DeclarationsIn(statements) ==
    IF statements = <<>> THEN 0
    ELSE LET stmt == Head(statements)
         IN  DeclarationsIn(Tail(statements)) +
             CASE stmt[1] = "Var" -> 1
               [] stmt[1] = "Print" -> 0
               [] stmt[1] = "Block" -> DeclarationsIn(stmt[2])
               [] stmt[1] = "Function" -> 1 + Len(stmt[3]) + DeclarationsIn(stmt[4])
               [] stmt[1] = "Class" -> 1 + DeclarationsIn(stmt[3]) - Len(stmt[3])

VarSelf == <<"Var", "a", <<"Variable", "a">>>>
VarA == <<"Var", "a", Nil>>
PrintA == <<"Print", <<"Variable", "a">>>>
Resolved(program) == resolver.pc = "done" /\ resolver.program = program
ErrorsAre(errors) == resolver.r.errors = errors /\ (resolver.r.hadError <=> errors # <<>>)

\* C9: "Can't read local variable in its own initializer." is reported, and
\* the flag set, exactly when a Variable is resolved while the innermost
\* scope holds its name as declared and not defined; with an empty scope
\* stack (var a = a; at top level) it is not reported; and after the error
\* the rest of the program is resolved: every Variable of the program is
\* visited.  { var a = a; print a; } gives the one error, var a = a; none.
C9_OwnInitializer ==
    /\ Reported(OwnInitializer) = NamesIn(resolver.r.visited, {"declared"})
    /\ Reported(OwnInitializer) # <<>> => resolver.r.hadError
    /\ resolver.pc = "done" =>
          /\ resolver.next = Len(resolver.program) + 1
          /\ Len(resolver.r.visited) = VariablesIn(resolver.program)
    /\ Resolved(<<<<"Block", <<VarSelf, PrintA>>>>>>) =>
          ErrorsAre(<<[lexeme |-> "a", message |-> OwnInitializer]>>)
    /\ Resolved(<<VarSelf, PrintA>>) => ErrorsAre(<<>>)
    /\ Resolved(<<<<"Block", <<VarA, PrintA>>>>>>) => ErrorsAre(<<>>)

\* A local was read in its own initializer and a Variable after it was
\* resolved.
C9_Witness ==
    /\ resolver.pc = "done"
    /\ Reported(OwnInitializer) # <<>>
    /\ resolver.r.visited[1].state = "declared"
    /\ Len(resolver.r.visited) >= 2

\* C10: "Already a variable with this name in this scope." is reported, and
\* the flag set, exactly when a name is declared while the innermost scope
\* holds it already; a parameter repeated, and a var of the body that
\* repeats a parameter, are reported, as the parameters and the body share
\* one scope; a name declared again with an empty scope stack, or declared
\* in a scope inside the one that holds it, is not.
C10_AlreadyDeclared ==
    /\ Reported(AlreadyDeclared) = NamesIn(resolver.r.declared, {"declared", "defined"})
    /\ Reported(AlreadyDeclared) # <<>> => resolver.r.hadError
    /\ resolver.pc = "done" => Len(resolver.r.declared) = DeclarationsIn(resolver.program)
    /\ Resolved(<<<<"Function", "a", <<"b", "b">>, <<>>>>>>) =>
          ErrorsAre(<<[lexeme |-> "b", message |-> AlreadyDeclared]>>)
    /\ Resolved(<<<<"Function", "a", <<"a">>, <<VarA>>>>>>) =>
          ErrorsAre(<<[lexeme |-> "a", message |-> AlreadyDeclared]>>)
    /\ Resolved(<<<<"Block", <<VarA, VarA>>>>>>) =>
          ErrorsAre(<<[lexeme |-> "a", message |-> AlreadyDeclared]>>)
    /\ Resolved(<<<<"Block", <<VarA, <<"Function", "a", <<"a">>, <<>>>>>>>>>>) =>
          ErrorsAre(<<[lexeme |-> "a", message |-> AlreadyDeclared]>>)
    /\ Resolved(<<VarA, VarA>>) => ErrorsAre(<<>>)
    /\ Resolved(<<<<"Function", "a", <<"a">>, <<<<"Block", <<VarA>>>>>>>>>>) => ErrorsAre(<<>>)

\* A var of a function body that repeats a parameter was reported.
C10_Witness ==
    /\ resolver.pc = "done"
    /\ Len(resolver.program) = 1
    /\ resolver.program[1][1] = "Function"
    /\ resolver.program[1][3] = <<"a">>
    /\ Reported(AlreadyDeclared) = <<"a">>
    /\ resolver.r.hadError

(***************************************************************************)
(* Resolver specification for return and this: Resolve on the programs     *)
(* made of return statements, uses of this, functions, and classes with    *)
(* methods named init or a.                                                *)
(***************************************************************************)
MaxNesting == 4     \* greatest weight of a program of returns and uses of this

This == <<"This">>
One == <<"Literal", <<"string", <<"1", ".", "0">>>>>>
ReturnStatements ==
    {<<"Return", Nil>>, <<"Return", One>>, <<"Return", This>>, <<"Print", This>>}

RECURSIVE NestedGen(_), NestedLists(_), NestedMethods(_)
NestedGen(n) ==
    (IF n = 1 THEN ReturnStatements ELSE {})
    \cup {<<"Function", "a", <<>>, body>> : body \in NestedLists(n - 1)}
    \cup {<<"Class", "b", methods>> : methods \in NestedMethods(n - 1)}
NestedLists(n) ==
    IF n = 0 THEN {<<>>}
    ELSE UNION {{<<s>> \o rest : s \in NestedGen(k), rest \in NestedLists(n - k)} : k \in 1..n}
NestedMethods(n) ==
    IF n = 0 THEN {<<>>}
    ELSE UNION {{<<<<"Function", name, <<>>, body>>>> \o rest :
                    name \in {"init", "a"}, body \in NestedLists(k - 1),
                    rest \in NestedMethods(n - k)} : k \in 1..n}

NestedPrograms(most) == UNION {NestedLists(n) : n \in 0..most}

InitResolveNested ==
    /\ \E program \in NestedPrograms(MaxNesting) :
          resolver = [pc |-> "loop", program |-> program, next |-> 1, r |-> NewResolver]
    /\ scanner = NewScanner(<<>>) /\ scanPc = "idle" /\ main = MainIdle
    /\ parser = Idle /\ parseOut = Idle /\ interpreter = Idle

SpecResolveNested == InitResolveNested /\ [][NextResolve]_vars

(***************************************************************************)
(* Claims about return and this                                            *)
(***************************************************************************)
TopLevelReturn == "Can't return from top-level code."
InitializerReturn == "Can't return a value from an initializer."
ThisOutsideClass == "Can't use 'this' outside of a class."

\* What the claims say is reported for statements, in the order of the
\* program, by where they stand: function is "none" outside every function,
\* else "init" for a method named init, "method" for another method and
\* "function" for a function declaration, the innermost that encloses them;
\* inClass tells whether a class body encloses them.
RECURSIVE Lexical(_, _, _), LexicalMethods(_)
LexicalExpr(expr, inClass) ==
    IF expr # Nil /\ expr = This /\ ~inClass
    THEN <<[lexeme |-> "this", message |-> ThisOutsideClass]>>
    ELSE <<>>
Lexical(statements, function, inClass) ==
    IF statements = <<>> THEN <<>>
    ELSE LET stmt == Head(statements)
         IN  (CASE stmt[1] = "Return" ->
                       (IF function = "none"
                        THEN <<[lexeme |-> "return", message |-> TopLevelReturn]>>
                        ELSE <<>>)
                       \o (IF stmt[2] # Nil /\ function = "init"
                           THEN <<[lexeme |-> "return", message |-> InitializerReturn]>>
                           ELSE <<>>)
                       \o LexicalExpr(stmt[2], inClass)
                [] stmt[1] = "Print" -> LexicalExpr(stmt[2], inClass)
                [] stmt[1] = "Function" -> Lexical(stmt[4], "function", inClass)
                [] stmt[1] = "Class" -> LexicalMethods(stmt[3]))
             \o Lexical(Tail(statements), function, inClass)
LexicalMethods(methods) ==
    IF methods = <<>> THEN <<>>
    ELSE Lexical(Head(methods)[4], IF Head(methods)[2] = "init" THEN "init" ELSE "method", TRUE)
         \o LexicalMethods(Tail(methods))

OfMessages(errors, messages) == SelectSeq(errors, LAMBDA e : e.message \in messages)
ResolvedSoFar == SubSeq(resolver.program, 1, resolver.next - 1)
ClassInit(body) == <<"Class", "b", <<<<"Function", "init", <<>>, body>>>>>>
ClassMethod(body) == <<"Class", "b", <<<<"Function", "a", <<>>, body>>>>>>
FunctionA(body) == <<"Function", "a", <<>>, body>>

\* C11: for every return statement "Can't return from top-level code." is
\* reported exactly when no function or method body encloses it, and "Can't
\* return a value from an initializer." exactly when it carries a value and
\* the innermost function that encloses it is a method named init; a bare
\* return in init and a return of a value in a function nested in init are
\* accepted; currentFunction is back at its previous value when a function
\* has been resolved.
C11_ReturnErrors ==
    /\ OfMessages(resolver.r.errors, {TopLevelReturn, InitializerReturn})
          = OfMessages(Lexical(ResolvedSoFar, "none", FALSE),
                       {TopLevelReturn, InitializerReturn})
    /\ resolver.r.currentFunction = "NONE_FUNCTION"
    /\ OfMessages(resolver.r.errors, {TopLevelReturn, InitializerReturn}) # <<>>
          => resolver.r.hadError
    /\ Resolved(<<ClassInit(<<<<"Return", Nil>>>>)>>) => ErrorsAre(<<>>)
    /\ Resolved(<<ClassInit(<<FunctionA(<<<<"Return", One>>>>)>>)>>) => ErrorsAre(<<>>)
    /\ Resolved(<<ClassInit(<<<<"Return", One>>>>)>>) =>
          ErrorsAre(<<[lexeme |-> "return", message |-> InitializerReturn]>>)
    /\ Resolved(<<ClassMethod(<<<<"Return", One>>>>)>>) => ErrorsAre(<<>>)
    /\ Resolved(<<FunctionA(<<>>), <<"Return", Nil>>>>) =>
          ErrorsAre(<<[lexeme |-> "return", message |-> TopLevelReturn]>>)

\* A return at top level and a return of a value in init have both been
\* reported, each with its own message.
C11_Witness ==
    /\ Resolved(<<<<"Return", Nil>>, ClassInit(<<<<"Return", One>>>>)>>)
    /\ ErrorsAre(<<[lexeme |-> "return", message |-> TopLevelReturn],
                   [lexeme |-> "return", message |-> InitializerReturn]>>)

\* The number of uses of this in statements.
RECURSIVE ThisUses(_)
ThisUses(statements) ==
    IF statements = <<>> THEN 0
    ELSE LET stmt == Head(statements)
         IN  (CASE stmt[1] \in {"Return", "Print"} -> IF stmt[2] # Nil /\ stmt[2] = This THEN 1 ELSE 0
                [] stmt[1] = "Function" -> ThisUses(stmt[4])
                [] stmt[1] = "Class" -> ThisUses(stmt[3]))
             + ThisUses(Tail(statements))

\* C12: "Can't use 'this' outside of a class." is reported for a use of this
\* exactly when no class body encloses it: this in a function nested in a
\* method is accepted, and this at top level or in a function declared after
\* a class has ended is rejected, currentClass being back at its previous
\* value; a rejected this gets no entry in locals, an accepted one gets one.
C12_ThisErrors ==
    /\ OfMessages(resolver.r.errors, {ThisOutsideClass})
          = OfMessages(Lexical(ResolvedSoFar, "none", FALSE), {ThisOutsideClass})
    /\ resolver.r.currentClass = "NONE_CLASS"
    /\ OfMessages(resolver.r.errors, {ThisOutsideClass}) # <<>> => resolver.r.hadError
    /\ Len(resolver.r.locals)
          = ThisUses(ResolvedSoFar) - Len(OfMessages(resolver.r.errors, {ThisOutsideClass}))
    /\ \A i \in 1..Len(resolver.r.locals) : resolver.r.locals[i].expr = This
    /\ Resolved(<<ClassMethod(<<FunctionA(<<<<"Print", This>>>>)>>)>>) =>
          /\ ErrorsAre(<<>>)
          /\ resolver.r.locals = <<[expr |-> This, depth |-> 2]>>
    /\ Resolved(<<<<"Print", This>>>>) =>
          /\ ErrorsAre(<<[lexeme |-> "this", message |-> ThisOutsideClass]>>)
          /\ resolver.r.locals = <<>>

\* this in a function declared after a class has ended has been rejected
\* and has got no entry in locals.
C12_Witness ==
    /\ Resolved(<<<<"Class", "b", <<>>>>, FunctionA(<<<<"Print", This>>>>)>>)
    /\ ErrorsAre(<<[lexeme |-> "this", message |-> ThisOutsideClass]>>)
    /\ resolver.r.locals = <<>>

(***************************************************************************)
(* Runtime values.  A Go string is the sequence of its bytes; a float64 is *)
(* the fraction <<n, d>> in lowest terms with d >= 0, where <<1, 0>> is    *)
(* +Inf, <<-1, 0>> is -Inf and <<0, 0>> is NaN (rounding and the sign of   *)
(* zero are left out); a value of type interface{} carries its dynamic     *)
(* type first.                                                             *)
(***************************************************************************)
NilValue == <<"nil", "nil">>
Bool(b) == <<"bool", IF b THEN "true" ELSE "false">>
String(chars) == <<"string", chars>>
Float64(x) == <<"float64", x>>

IsString(value) == value[1] = "string"
IsFloat64(value) == value[1] = "float64"
IsBool(value) == value[1] = "bool"

RECURSIVE GCD(_, _)
GCD(a, b) == IF b = 0 THEN a ELSE GCD(b, a % b)
Abs(n) == IF n < 0 THEN -n ELSE n
Sign(n) == IF n < 0 THEN -1 ELSE IF n = 0 THEN 0 ELSE 1
Fraction(n, d) ==
    IF d = 0 THEN <<Sign(n), 0>>
    ELSE <<(Sign(d) * n) \div GCD(Abs(n), Abs(d)), Abs(d) \div GCD(Abs(n), Abs(d))>>
NaN == <<0, 0>>
IsNaN(x) == x[1] = 0 /\ x[2] = 0
FloatNeg(x) == <<-x[1], x[2]>>
FloatAdd(x, y) ==
    IF x[2] = 0 /\ y[2] = 0 THEN (IF x = y THEN x ELSE NaN)
    ELSE Fraction(x[1] * y[2] + y[1] * x[2], x[2] * y[2])
FloatSub(x, y) == FloatAdd(x, FloatNeg(y))
FloatMul(x, y) == Fraction(x[1] * y[1], x[2] * y[2])
FloatDiv(x, y) == FloatMul(x, Fraction(y[2], y[1]))
FloatLess(x, y) ==
    /\ ~IsNaN(x) /\ ~IsNaN(y)
    /\ IF x[2] = 0 /\ y[2] = 0 THEN x[1] < y[1] ELSE x[1] * y[2] < y[1] * x[2]
FloatEqual(x, y) == ~IsNaN(x) /\ ~IsNaN(y) /\ x = y

DigitChar(k) ==
    CASE k = 0 -> "0" [] k = 1 -> "1" [] k = 2 -> "2" [] k = 3 -> "3" [] k = 4 -> "4"
      [] k = 5 -> "5" [] k = 6 -> "6" [] k = 7 -> "7" [] k = 8 -> "8" [] k = 9 -> "9"
DigitChars == {DigitChar(k) : k \in 0..9}
DigitValue(c) == CHOOSE k \in 0..9 : DigitChar(k) = c

\* strings.Contains(str, substr) for a substr of one byte.
Contains(chars, c) == \E k \in 1..Len(chars) : chars[k] = c

\* strconv.ParseFloat(str, 64) on an optional sign followed by decimal digits
\* with at most one point; the exponents, hexadecimal forms, underscores and
\* the words inf and nan it also accepts need bytes no string here holds.
RECURSIVE DecimalOf(_, _, _, _)
DecimalOf(chars, n, d, afterPoint) ==
    IF chars = <<>> THEN Fraction(n, d)
    ELSE IF Head(chars) = "." THEN DecimalOf(Tail(chars), n, d, TRUE)
    ELSE DecimalOf(Tail(chars), 10 * n + DigitValue(Head(chars)),
                   IF afterPoint THEN 10 * d ELSE d, afterPoint)
Unsigned(chars) == IF chars # <<>> /\ Head(chars) \in {"+", "-"} THEN Tail(chars) ELSE chars
ParseFloatOk(chars) ==
    /\ \A k \in 1..Len(Unsigned(chars)) : Unsigned(chars)[k] \in DigitChars \cup {"."}
    /\ \E k \in 1..Len(Unsigned(chars)) : Unsigned(chars)[k] \in DigitChars
    /\ Cardinality({k \in 1..Len(Unsigned(chars)) : Unsigned(chars)[k] = "."}) <= 1
ParseFloat(chars) ==
    IF chars # <<>> /\ Head(chars) = "-" THEN FloatNeg(DecimalOf(Unsigned(chars), 0, 1, FALSE))
    ELSE DecimalOf(Unsigned(chars), 0, 1, FALSE)

\* strconv.FormatFloat(num, 'f', -1, 64), with at most MaxDigits digits after
\* the point.
MaxDigits == 17
RECURSIVE NatString(_), FracString(_, _, _)
NatString(n) == IF n < 10 THEN DigitChar(n) ELSE NatString(n \div 10) \o DigitChar(n % 10)
FracString(r, d, k) ==
    IF r = 0 \/ k = 0 THEN ""
    ELSE DigitChar((10 * r) \div d) \o FracString((10 * r) % d, d, k - 1)
FormatFloat(x) ==
    IF x[2] = 0 THEN (IF x[1] = 0 THEN "NaN" ELSE IF x[1] > 0 THEN "+Inf" ELSE "-Inf")
    ELSE (IF x[1] < 0 THEN "-" ELSE "")
         \o NatString(Abs(x[1]) \div x[2])
         \o (IF Abs(x[1]) % x[2] = 0 THEN "" ELSE "." \o FracString(Abs(x[1]) % x[2], x[2], MaxDigits))

(***************************************************************************)
(* Environment.  frames is the heap of Environment structs; an *Environment*)
(* is an index into it, 0 the nil pointer.                                 *)
(***************************************************************************)
NewEnvironment == [values |-> EmptyScope, enclosing |-> 0]
Global == 1

\* The heap after NewEnclosedEnvironment(enclosing); the new frame is the last.
NewEnclosedEnvironment(frames, enclosing) ==
    Append(frames, [values |-> EmptyScope, enclosing |-> enclosing])

Define(frames, e, name, value) == [frames EXCEPT ![e].values = Put(@, name, value)]

Undefined(name) == "Undefined variable '" \o name \o "'."

RECURSIVE Get(_, _, _)
Get(frames, e, name) ==
    IF name \in DOMAIN frames[e].values
    THEN [value |-> frames[e].values[name], err |-> Nil]
    ELSE IF frames[e].enclosing # 0 THEN Get(frames, frames[e].enclosing, name)
    ELSE [value |-> NilValue, err |-> <<"error", Undefined(name)>>]

\* Assign that writes the receiver's own map when it does not hold the name.
Assign_Current(frames, e, name, value) ==
    [frames |-> [frames EXCEPT ![e].values = Put(@, name, value)], err |-> Nil]

RECURSIVE Assign(_, _, _, _)
Assign(frames, e, name, value) ==
    IF name \in DOMAIN frames[e].values
    THEN [frames |-> [frames EXCEPT ![e].values = Put(@, name, value)], err |-> Nil]
    ELSE IF frames[e].enclosing # 0 THEN Assign(frames, frames[e].enclosing, name, value)
    ELSE [frames |-> frames, err |-> <<"error", Undefined(name)>>]

\* The Go panic of a read through a nil *Environment.
NilDereference == <<"runtime error", "invalid memory address or nil pointer dereference">>

\* ancestor whose loop runs while i <= distance.
RECURSIVE ancestor_OneMore(_, _, _)
ancestor_OneMore(frames, e, distance) ==
    IF distance < 0 \/ e = 0 THEN e
    ELSE ancestor_OneMore(frames, frames[e].enclosing, distance - 1)

\* ancestor(distance): the frame reached from e, 0 when the loop has gone
\* through a nil pointer or ends on one.
RECURSIVE ancestor(_, _, _)
ancestor(frames, e, distance) ==
    IF distance <= 0 \/ e = 0 THEN e
    ELSE ancestor(frames, frames[e].enclosing, distance - 1)

\* GetAt(distance, name): a name that the map does not hold reads as nil.
GetAt(frames, e, distance, name) ==
    The({IF a = 0 THEN [value |-> NilValue, panic |-> NilDereference]
         ELSE IF name \in DOMAIN frames[a].values
         THEN [value |-> frames[a].values[name], panic |-> Nil]
         ELSE [value |-> NilValue, panic |-> Nil] :
         a \in {ancestor(frames, e, distance)}})

\* AssignAt(distance, name, value): the map entry is written, new or not.
AssignAt(frames, e, distance, name, value) ==
    The({IF a = 0 THEN [frames |-> frames, panic |-> NilDereference]
         ELSE [frames |-> [frames EXCEPT ![a].values = Put(@, name, value)], panic |-> Nil] :
         a \in {ancestor(frames, e, distance)}})

(***************************************************************************)
(* Interpreter.  i is the Interpreter struct with the heap of frames, the  *)
(* lines written to stdout and stderr, the expressions handed to Evaluate  *)
(* and the statements handed to Execute so far, in order, the number of    *)
(* loop bodies run, and the panic on its way up the Go stack (Nil when     *)
(* there is none, <<"cut">> when a bound of the model ends the run).       *)
(* i.first keeps what the frames and stdout were, and how many statements  *)
(* and expressions had been handed over, when the first error was reported.*)
(* i.calls keeps, for each LoxFunction.Call, the function, the arguments,  *)
(* the caller's frame, the heap before, and the new frame and the heap     *)
(* when the parameters had been bound.  i.trace keeps, in order, each      *)
(* statement handed to Execute with the current frame, each call (with its *)
(* index in i.calls),                                                      *)
(* each panic raised with a *ReturnValue, and the way each call came back: *)
(* the calls not yet back at that moment (i.open, the innermost last),     *)
(* the panic executeBlock came back with, the value returned, the current  *)
(* frame and the panic still on its way.  i.instances is the heap of       *)
(* LoxInstance structs; a *LoxInstance is <<"instance", class, index>>.    *)
(* i.accesses keeps, for each Variable read and each Assignment made, the  *)
(* node, the heap and the current frame at that moment, and the frame      *)
(* whose map Get or Assign found the name in (0 when none has it).         *)
(* i.blocks keeps, for each Block that has been left, its statements, the  *)
(* current frame at entry, the new frame and its parent, the current frame *)
(* at exit, the lengths of i.trace at entry and at exit, and the panic and *)
(* the error flag it was left with.                                        *)
(***************************************************************************)
MaxIterations == 2  \* loop bodies run in one program

NewInterpreter ==
    [hadRuntimeError |-> FALSE, environment |-> Global, frames |-> <<NewEnvironment>>,
     stdout |-> <<>>, stderr |-> <<>>, evaluated |-> <<>>, executed |-> <<>>,
     iterations |-> 0, panic |-> Nil, calls |-> <<>>, trace |-> <<>>, open |-> <<>>,
     instances |-> <<>>, accesses |-> <<>>, blocks |-> <<>>,
     first |-> [frames |-> <<>>, stdout |-> <<>>, executed |-> 0, evaluated |-> 0]]

\* What a method of the interpreter returns: the struct and the value.
Val(i, value) == [i |-> i, value |-> value]

runtimeError(i, message) ==
    [i EXCEPT !.hadRuntimeError = TRUE, !.stderr = Append(@, message),
              !.first = IF i.hadRuntimeError THEN @
                        ELSE [frames |-> i.frames, stdout |-> i.stdout,
                              executed |-> Len(i.executed), evaluated |-> Len(i.evaluated)]]

isTruthy(value) ==
    IF value[1] = "nil" THEN FALSE
    ELSE IF IsBool(value) THEN value[2] = "true"
    ELSE TRUE

NumericString(value) ==
    IsString(value) /\ Contains(value[2], ".") /\ ParseFloatOk(value[2])

isNumber(value) == IsFloat64(value) \/ NumericString(value)

toNumber(value) ==
    IF IsFloat64(value) THEN value[2]
    ELSE IF IsString(value) /\ ParseFloatOk(value[2]) THEN ParseFloat(value[2])
    ELSE <<0, 1>>

isEqual(left, right) ==
    IF left[1] = "nil" /\ right[1] = "nil" THEN TRUE
    ELSE IF left[1] = "nil" \/ right[1] = "nil" THEN FALSE
    ELSE IF (IsFloat64(left) \/ NumericString(left)) /\ (IsFloat64(right) \/ NumericString(right))
    THEN FloatEqual(toNumber(left), toNumber(right))
    ELSE IF IsString(left) /\ IsString(right) /\ ~NumericString(left) /\ ~NumericString(right)
    THEN left[2] = right[2]
    ELSE IF IsBool(left) /\ IsBool(right) THEN left[2] = right[2]
    ELSE FALSE

checkNumberOperands(i, left, right) ==
    IF ~isNumber(left) \/ ~isNumber(right)
    THEN [i |-> runtimeError(i, "Operands must be numbers."), ok |-> FALSE]
    ELSE [i |-> i, ok |-> TRUE]

\* The result of a checked operator, given what it yields on two numbers.
Checked(c, value) == IF c.ok THEN Val(c.i, value) ELSE Val(c.i, NilValue)

Stringify(value) ==
    CASE value[1] = "nil" -> "nil"
      [] IsBool(value) -> value[2]
      [] IsString(value) ->
            IF ParseFloatOk(value[2]) THEN FormatFloat(ParseFloat(value[2])) ELSE Text(value[2])
      [] IsFloat64(value) -> FormatFloat(value[2])
      [] value[1] = "function" -> "<fn " \o value[2][2] \o ">"
      [] value[1] = "class" -> value[2]
      [] value[1] = "instance" -> value[2][2] \o " instance"

RECURSIVE Evaluate(_, _), Execute(_, _), executeBlockLoop(_, _), whileLoop(_, _)
RECURSIVE executeBlock(_, _, _)

\* A *LoxFunction: the declaration <<"Function", name, params, body>> and the
\* closure.
NewLoxFunction(stmt, closure) == <<"function", stmt, closure>>

\* The heap when the parameters from the p-th on are defined in frame e.
RECURSIVE bindParams(_, _, _, _, _)
bindParams(frames, e, params, given, p) ==
    IF p > Len(params) THEN frames
    ELSE bindParams(Define(frames, e, params[p], given[p]), e, params, given, p + 1)

\* A recover that hands back the carried value and lets the panic go on.
Recovered_Rethrow(j) ==
    IF j.panic # Nil /\ j.panic[1] = "ReturnValue" THEN Val(j, j.panic[2])
    ELSE Val(j, NilValue)

\* What Call returns when executeBlock has come back as j: the recover takes
\* a *ReturnValue and lets any other panic go on.
Recovered(j) ==
    IF j.panic # Nil /\ j.panic[1] = "ReturnValue" THEN Val([j EXCEPT !.panic = Nil], j.panic[2])
    ELSE Val(j, NilValue)

\* The end of Call number k, executeBlock having come back as j.
Returned(j, k) ==
    The({Val([r.i EXCEPT !.trace = Append(@, <<"return", k, j.panic, r.value,
                                               r.i.environment, r.i.panic>>),
                         !.open = SubSeq(@, 1, Len(@) - 1)],
             r.value) :
         r \in {Recovered(j)}})

\* The interpreter when Call number Len(i.calls) + 1 has bound its parameters
\* in the heap bound and is about to run the body.
Entered(i, f, given, bound) ==
    [i EXCEPT !.frames = bound,
              !.trace = Append(@, <<"call", Len(i.calls) + 1>>),
              !.open = Append(@, Len(i.calls) + 1),
              !.calls = Append(@, [function |-> f, arguments |-> given,
                                   caller |-> i.environment, before |-> i.frames,
                                   environment |-> Len(i.frames) + 1,
                                   bound |-> bound])]

\* LoxFunction.Call whose new frame encloses the caller's current frame.
LoxFunction_Call_CallerFrame(i, f, given) ==
    The({Returned(j, Len(i.calls) + 1) :
         j \in {executeBlock(
                   Entered(i, f, given,
                           bindParams(NewEnclosedEnvironment(i.frames, i.environment),
                                      Len(i.frames) + 1, f[2][3], given, 1)),
                   f[2][4], Len(i.frames) + 1)}})

\* LoxFunction.Call(interpreter, arguments) on the function f, given the
\* arguments.
LoxFunction_Call(i, f, given) ==
    The({Returned(j, Len(i.calls) + 1) :
         j \in {executeBlock(
                   Entered(i, f, given,
                           bindParams(NewEnclosedEnvironment(i.frames, f[3]),
                                      Len(i.frames) + 1, f[2][3], given, 1)),
                   f[2][4], Len(i.frames) + 1)}})

\* Bind(instance): the function as it is.
LoxFunction_Bind(i, f, instance) == Val(i, f)

\* A *LoxClass: the name and the map of the methods.
NewLoxClass(name, methods) == <<"class", name, methods>>

FindMethod(c, name) == IF name \in DOMAIN c[3] THEN c[3][name] ELSE Nil

LoxClass_Arity(c) == 0

\* The heap after NewLoxInstance(class); the new instance is the last.
NewLoxInstance(instances, class) == Append(instances, [class |-> class, fields |-> EmptyScope])

\* LoxClass.Call(interpreter, arguments) on the class c.
LoxClass_Call(i, c, given) ==
    Val([i EXCEPT !.instances = NewLoxInstance(@, c)], <<"instance", c, Len(i.instances) + 1>>)

\* LoxInstance.Get(name): a field, or else a method bound to the instance,
\* or else nil.
LoxInstance_Get(i, instance, name) ==
    IF name \in DOMAIN i.instances[instance[3]].fields
    THEN Val(i, i.instances[instance[3]].fields[name])
    ELSE IF FindMethod(i.instances[instance[3]].class, name) # Nil
    THEN LoxFunction_Bind(i, FindMethod(i.instances[instance[3]].class, name), instance)
    ELSE Val(i, NilValue)

\* LoxInstance.Set(name, value).
LoxInstance_Set(i, instance, name, value) ==
    [i EXCEPT !.instances[instance[3]].fields = Put(@, name, value)]

\* The arguments of a call evaluated from left to right: the interpreter
\* and the values.
RECURSIVE evaluateArguments(_, _, _)
evaluateArguments(i, given, values) ==
    IF given = <<>> \/ i.panic # Nil THEN [i |-> i, values |-> values]
    ELSE The({evaluateArguments(v.i, Tail(given), Append(values, v.value)) :
              v \in {Evaluate(i, Head(given))}})

Expected(arity, got) ==
    "Expected " \o NatString(arity) \o " arguments but got " \o NatString(got) \o "."

\* expr is <<"Call", callee, arguments>>.
\* The callee of a call evaluated, then its arguments: the interpreter, the
\* callee and the values.
calleeAndArguments(i, expr) ==
    The({IF callee.i.panic # Nil
         THEN [i |-> callee.i, callee |-> callee.value, values |-> <<>>]
         ELSE The({[i |-> args.i, callee |-> callee.value, values |-> args.values] :
                   args \in {evaluateArguments(callee.i, expr[3], <<>>)}}) :
         callee \in {Evaluate(i, expr[2])}})

Interpreter_VisitCallExpr(i, expr) ==
    The({IF c.i.panic # Nil \/ c.i.hadRuntimeError THEN Val(c.i, NilValue)
         ELSE IF c.callee[1] # "function"
         THEN Val(runtimeError(c.i, "Can only call functions and classes."), NilValue)
         ELSE IF Len(c.values) # Len(c.callee[2][3])
         THEN Val(runtimeError(c.i, Expected(Len(c.callee[2][3]), Len(c.values))), NilValue)
         ELSE LoxFunction_Call(c.i, c.callee, c.values) :
         c \in {calleeAndArguments(i, expr)}})

Interpreter_VisitLiteralExpr(i, expr) == Val(i, expr[2])

Interpreter_VisitGroupingExpr(i, expr) == Evaluate(i, expr[2])

\* The frame in which the walk of Get and Assign from e finds the name.
RECURSIVE Holder(_, _, _)
Holder(frames, e, name) ==
    IF name \in DOMAIN frames[e].values THEN e
    ELSE IF frames[e].enclosing # 0 THEN Holder(frames, frames[e].enclosing, name)
    ELSE 0

Accessed(i, expr) ==
    [i EXCEPT !.accesses = Append(@, [expr |-> expr, frames |-> i.frames,
                                      environment |-> i.environment,
                                      frame |-> Holder(i.frames, i.environment, expr[2])])]

\* expr is <<"Variable", name>>.
Interpreter_VisitVariableExpr(i, expr) ==
    The({IF g.err # Nil THEN Val(runtimeError(Accessed(i, expr), g.err[2]), NilValue)
         ELSE Val(Accessed(i, expr), g.value) :
         g \in {Get(i.frames, i.environment, expr[2])}})

\* expr is <<"Assignment", name, value>>.
Interpreter_VisitAssignmentExpr(i, expr) ==
    The({IF v.i.panic # Nil \/ v.i.hadRuntimeError THEN v
         ELSE The({IF a.err # Nil THEN Val(runtimeError(Accessed(v.i, expr), a.err[2]), NilValue)
                   ELSE Val([Accessed(v.i, expr) EXCEPT !.frames = a.frames], v.value) :
                   a \in {Assign(v.i.frames, v.i.environment, expr[2], v.value)}}) :
         v \in {Evaluate(i, expr[3])}})

\* VisitLogicalExpr that evaluates both operands before it chooses.
Interpreter_VisitLogicalExpr_Eager(i, expr) ==
    The({IF left.i.panic # Nil THEN left
         ELSE IF left.i.hadRuntimeError THEN Val(left.i, NilValue)
         ELSE The({IF expr[3] = "OR" /\ isTruthy(left.value) THEN Val(right.i, left.value)
                   ELSE IF expr[3] = "AND" /\ ~isTruthy(left.value) THEN Val(right.i, left.value)
                   ELSE right :
                   right \in {Evaluate(left.i, expr[4])}}) :
         left \in {Evaluate(i, expr[2])}})

\* expr is <<"Logical", left, operator, right>>.
Interpreter_VisitLogicalExpr(i, expr) ==
    The({IF left.i.panic # Nil THEN left
         ELSE IF left.i.hadRuntimeError THEN Val(left.i, NilValue)
         ELSE IF expr[3] = "OR" /\ isTruthy(left.value) THEN left
         ELSE IF expr[3] = "AND" /\ ~isTruthy(left.value) THEN left
         ELSE Evaluate(left.i, expr[4]) :
         left \in {Evaluate(i, expr[2])}})

\* expr is <<"Unary", operator, right>>.
Interpreter_VisitUnaryExpr(i, expr) ==
    The({IF right.i.panic # Nil THEN right
         ELSE CASE expr[2] = "MINUS" ->
                     IF ~isNumber(right.value)
                     THEN Val(runtimeError(right.i, "Operand must be a number."), NilValue)
                     ELSE Val(right.i, Float64(FloatNeg(toNumber(right.value))))
                [] expr[2] = "BANG" -> Val(right.i, Bool(~isTruthy(right.value)))
                [] OTHER -> Val(right.i, NilValue) :
         right \in {Evaluate(i, expr[3])}})

\* case PLUS that concatenates any two strings.
Plus_AnyStrings(i, left, right) ==
    IF IsString(left) /\ IsString(right) THEN Val(i, String(left[2] \o right[2]))
    ELSE IF isNumber(left) /\ isNumber(right)
    THEN Val(i, Float64(FloatAdd(toNumber(left), toNumber(right))))
    ELSE Val(runtimeError(i, "Operands must be two numbers or two strings."), NilValue)

\* case PLUS of VisitBinaryExpr.
Plus(i, left, right) ==
    IF isNumber(left) /\ isNumber(right)
    THEN Val(i, Float64(FloatAdd(toNumber(left), toNumber(right))))
    ELSE IF IsString(left) /\ IsString(right) /\ ~isNumber(left) /\ ~isNumber(right)
    THEN Val(i, String(left[2] \o right[2]))
    ELSE Val(runtimeError(i, "Operands must be two numbers or two strings."), NilValue)

\* The switch of VisitBinaryExpr on the operator, both operands evaluated.
BinaryOperator(i, operator, left, right) ==
    CASE operator = "PLUS" -> Plus(i, left, right)
      [] operator = "MINUS" ->
            Checked(checkNumberOperands(i, left, right),
                    Float64(FloatSub(toNumber(left), toNumber(right))))
      [] operator = "STAR" ->
            Checked(checkNumberOperands(i, left, right),
                    Float64(FloatMul(toNumber(left), toNumber(right))))
      [] operator = "SLASH" ->
            Checked(checkNumberOperands(i, left, right),
                    Float64(FloatDiv(toNumber(left), toNumber(right))))
      [] operator = "GREATER" ->
            Checked(checkNumberOperands(i, left, right),
                    Bool(FloatLess(toNumber(right), toNumber(left))))
      [] operator = "GREATER_EQUAL" ->
            Checked(checkNumberOperands(i, left, right),
                    Bool(FloatLess(toNumber(right), toNumber(left))
                         \/ FloatEqual(toNumber(left), toNumber(right))))
      [] operator = "LESS" ->
            Checked(checkNumberOperands(i, left, right),
                    Bool(FloatLess(toNumber(left), toNumber(right))))
      [] operator = "LESS_EQUAL" ->
            Checked(checkNumberOperands(i, left, right),
                    Bool(FloatLess(toNumber(left), toNumber(right))
                         \/ FloatEqual(toNumber(left), toNumber(right))))
      [] operator = "EQUAL_EQUAL" -> Val(i, Bool(isEqual(left, right)))
      [] operator = "BANG_EQUAL" -> Val(i, Bool(~isEqual(left, right)))
      [] OTHER -> Val(i, NilValue)

\* expr is <<"Binary", left, operator, right>>.
Interpreter_VisitBinaryExpr(i, expr) ==
    The({IF left.i.panic # Nil THEN left
         ELSE The({IF right.i.panic # Nil THEN right
                   ELSE BinaryOperator(right.i, expr[3], left.value, right.value) :
                   right \in {Evaluate(left.i, expr[4])}}) :
         left \in {Evaluate(i, expr[2])}})

Evaluate(i, expr) ==
    The({CASE expr[1] = "Literal" -> Interpreter_VisitLiteralExpr(j, expr)
           [] expr[1] = "Grouping" -> Interpreter_VisitGroupingExpr(j, expr)
           [] expr[1] = "Unary" -> Interpreter_VisitUnaryExpr(j, expr)
           [] expr[1] = "Binary" -> Interpreter_VisitBinaryExpr(j, expr)
           [] expr[1] = "Variable" -> Interpreter_VisitVariableExpr(j, expr)
           [] expr[1] = "Assignment" -> Interpreter_VisitAssignmentExpr(j, expr)
           [] expr[1] = "Logical" -> Interpreter_VisitLogicalExpr(j, expr)
           [] expr[1] = "Call" -> Interpreter_VisitCallExpr(j, expr) :
         j \in {[i EXCEPT !.evaluated = Append(@, expr)]}})

\* stmt is <<"Print", expression>>.
Interpreter_VisitPrintStmt(i, stmt) ==
    The({IF v.i.panic # Nil \/ v.i.hadRuntimeError THEN v.i
         ELSE [v.i EXCEPT !.stdout = Append(@, Stringify(v.value))] :
         v \in {Evaluate(i, stmt[2])}})

\* stmt is <<"Expression", expression>>.
Interpreter_VisitExpressionStmt(i, stmt) == Evaluate(i, stmt[2]).i

\* stmt is <<"Var", name, initializer>>.
Interpreter_VisitVarStmt(i, stmt) ==
    The({IF v.i.panic # Nil \/ v.i.hadRuntimeError THEN v.i
         ELSE [v.i EXCEPT !.frames = Define(@, v.i.environment, stmt[2], v.value)] :
         v \in {IF stmt[3] # Nil THEN Evaluate(i, stmt[3]) ELSE Val(i, NilValue)}})

\* The loop of executeBlock without its break.
executeBlockLoop_NoBreak(i, statements) ==
    IF statements = <<>> THEN i
    ELSE The({IF j.panic # Nil THEN j ELSE executeBlockLoop(j, Tail(statements)) :
              j \in {Execute(i, Head(statements))}})

executeBlockLoop(i, statements) ==
    IF statements = <<>> THEN i
    ELSE The({IF j.panic # Nil \/ j.hadRuntimeError THEN j
              ELSE executeBlockLoop(j, Tail(statements)) :
              j \in {Execute(i, Head(statements))}})

\* executeBlock that puts the previous environment back after the loop, in
\* a statement and not in a deferred function.
executeBlock_NoDefer(i, statements, environment) ==
    The({IF j.panic # Nil THEN j ELSE [j EXCEPT !.environment = i.environment] :
         j \in {executeBlockLoop([i EXCEPT !.environment = environment], statements)}})

\* The deferred function puts the previous environment back on every way out.
executeBlock(i, statements, environment) ==
    [executeBlockLoop([i EXCEPT !.environment = environment], statements)
        EXCEPT !.environment = i.environment]

\* VisitBlockStmt that runs the statements in the current environment.
Interpreter_VisitBlockStmt_SameFrame(i, stmt) == executeBlock(i, stmt[2], i.environment)

\* stmt is <<"Block", statements>>.
Interpreter_VisitBlockStmt(i, stmt) ==
    The({[j EXCEPT !.blocks =
              Append(@, [statements |-> stmt[2], entry |-> i.environment,
                         frame |-> Len(i.frames) + 1,
                         parent |-> j.frames[Len(i.frames) + 1].enclosing,
                         exit |-> j.environment,
                         from |-> Len(i.trace), to |-> Len(j.trace),
                         panic |-> j.panic, hadRuntimeError |-> j.hadRuntimeError])] :
         j \in {executeBlock([i EXCEPT !.frames = NewEnclosedEnvironment(@, i.environment)],
                             stmt[2], Len(i.frames) + 1)}})

\* stmt is <<"If", condition, thenBranch, elseBranch>>.
Interpreter_VisitIfStmt(i, stmt) ==
    The({IF condition.i.panic # Nil \/ condition.i.hadRuntimeError THEN condition.i
         ELSE IF isTruthy(condition.value) THEN Execute(condition.i, stmt[3])
         ELSE IF stmt[4] # Nil THEN Execute(condition.i, stmt[4])
         ELSE condition.i :
         condition \in {Evaluate(i, stmt[2])}})

\* stmt is <<"Function", name, params, body>>.
Interpreter_VisitFunctionStmt(i, stmt) ==
    [i EXCEPT !.frames = Define(@, i.environment, stmt[2], NewLoxFunction(stmt, i.environment))]

\* stmt is <<"Return", value>>: the panic with a *ReturnValue.
Interpreter_VisitReturnStmt(i, stmt) ==
    The({IF v.i.panic # Nil THEN v.i
         ELSE [v.i EXCEPT !.panic = <<"ReturnValue", v.value>>,
                          !.trace = Append(@, <<"panic", v.value, v.i.open>>)] :
         v \in {IF stmt[2] # Nil THEN Evaluate(i, stmt[2]) ELSE Val(i, NilValue)}})

\* One turn of the for loop of VisitWhileStmt.
whileLoop(i, stmt) ==
    The({IF condition.i.panic # Nil \/ condition.i.hadRuntimeError THEN condition.i
         ELSE IF ~isTruthy(condition.value) THEN condition.i
         ELSE IF condition.i.iterations >= MaxIterations
         THEN [condition.i EXCEPT !.panic = <<"cut">>]
         ELSE The({IF body.panic # Nil \/ body.hadRuntimeError THEN body
                   ELSE whileLoop(body, stmt) :
                   body \in {Execute([condition.i EXCEPT !.iterations = @ + 1], stmt[3])}}) :
         condition \in {Evaluate(i, stmt[2])}})

\* stmt is <<"While", condition, body>>.
Interpreter_VisitWhileStmt(i, stmt) == whileLoop(i, stmt)

\* stmt.Accept(i), the statement noted in i.executed and i.trace.
Accept(j, stmt) ==
    CASE stmt[1] = "Print" -> Interpreter_VisitPrintStmt(j, stmt)
      [] stmt[1] = "Expression" -> Interpreter_VisitExpressionStmt(j, stmt)
      [] stmt[1] = "Var" -> Interpreter_VisitVarStmt(j, stmt)
      [] stmt[1] = "Block" -> Interpreter_VisitBlockStmt(j, stmt)
      [] stmt[1] = "If" -> Interpreter_VisitIfStmt(j, stmt)
      [] stmt[1] = "While" -> Interpreter_VisitWhileStmt(j, stmt)
      [] stmt[1] = "Function" -> Interpreter_VisitFunctionStmt(j, stmt)
      [] stmt[1] = "Return" -> Interpreter_VisitReturnStmt(j, stmt)

Execute(i, stmt) ==
    Accept([i EXCEPT !.executed = Append(@, stmt),
                     !.trace = Append(@, <<"execute", stmt, i.environment>>)], stmt)

(***************************************************************************)
(* Interpreter specifications: InterpretStatements on one program, a step  *)
(* for each top-level statement.  interpreter.i is the Interpreter struct. *)
(***************************************************************************)
InterpretStatement ==
    /\ interpreter.pc = "loop"
    /\ interpreter.next <= Len(interpreter.program)
    /\ \E j \in {Execute(interpreter.i, interpreter.program[interpreter.next])} :
          interpreter' = [interpreter EXCEPT
                             !.i = j,
                             !.next = @ + 1,
                             !.pc = IF j.hadRuntimeError \/ j.panic # Nil THEN "done" ELSE "loop"]
    /\ UNCHANGED <<scanner, scanPc, main, parseVars, resolver>>

InterpretStatementsReturn ==
    /\ interpreter.pc = "loop"
    /\ interpreter.next > Len(interpreter.program)
    /\ interpreter' = [interpreter EXCEPT !.pc = "done"]
    /\ UNCHANGED <<scanner, scanPc, main, parseVars, resolver>>

NextInterpret == InterpretStatement \/ InterpretStatementsReturn

Interpreting(program) ==
    /\ interpreter = [pc |-> "loop", program |-> program, next |-> 1, i |-> NewInterpreter]
    /\ scanner = NewScanner(<<>>) /\ scanPc = "idle" /\ main = MainIdle
    /\ parser = Idle /\ parseOut = Idle /\ resolver = Idle

\* Literals, variables and assignments of the programs.
Two == <<"Literal", <<"string", <<"2", ".", "0">>>>>>
NilLiteral == <<"Literal", NilValue>>
VariableA == <<"Variable", "a">>
VariableB == <<"Variable", "b">>

\* Programs of blocks, loops and conditionals over the variable a, with a
\* variable b that is never defined.
MaxStatements == 4  \* greatest weight of a program of statements
Leaves ==
    {<<"Var", "a", One>>, <<"Var", "a", Two>>, <<"Print", VariableA>>,
     <<"Expression", <<"Assignment", "a", NilLiteral>>>>, <<"Print", VariableB>>}

RECURSIVE RunGen(_), RunLists(_)
RunGen(n) ==
    IF n = 1 THEN Leaves
    ELSE {<<"Block", statements>> : statements \in RunLists(n - 1)}
         \cup {<<"While", VariableA, body>> : body \in RunGen(n - 1)}
         \cup {<<"If", VariableA, body, Nil>> : body \in RunGen(n - 1)}
RunLists(n) ==
    IF n = 0 THEN {<<>>}
    ELSE UNION {{<<s>> \o rest : s \in RunGen(k), rest \in RunLists(n - k)} : k \in 1..n}

RunPrograms(most) == UNION {RunLists(n) : n \in 0..most}

InitInterpret == \E program \in RunPrograms(MaxStatements) : Interpreting(program)

SpecInterpret == InitInterpret /\ [][NextInterpret]_vars

\* Programs that define a and print one expression, b never defined.
MaxOperators == 2   \* most operators in the expression of a program
RECURSIVE ExprsOf(_)
ExprsOf(n) ==
    IF n = 0 THEN {One, NilLiteral, VariableA, VariableB}
    ELSE {<<"Unary", "MINUS", e>> : e \in ExprsOf(n - 1)}
         \cup {<<"Assignment", "a", e>> : e \in ExprsOf(n - 1)}
         \cup UNION {{<<"Binary", l, "MINUS", r>> : l \in ExprsOf(k), r \in ExprsOf(n - 1 - k)} :
                     k \in 0..(n - 1)}
         \cup UNION {{<<"Logical", l, op, r>> :
                        l \in ExprsOf(k), r \in ExprsOf(n - 1 - k), op \in {"OR", "AND"}} :
                     k \in 0..(n - 1)}

InitEvaluate ==
    \E n \in 0..MaxOperators : \E e \in ExprsOf(n) :
       Interpreting(<<<<"Var", "a", Nil>>, <<"Print", e>>>>)

SpecEvaluate == InitEvaluate /\ [][NextInterpret]_vars

(***************************************************************************)
(* Claims about blocks and runtime errors                                  *)
(***************************************************************************)
Interpreted(program) == interpreter.pc = "done" /\ interpreter.program = program
Executing(kind) ==
    /\ interpreter.pc = "loop"
    /\ interpreter.next <= Len(interpreter.program)
    /\ interpreter.program[interpreter.next][1] = kind
    /\ interpreter' # interpreter

\* Whether some statement of the list, at any depth, assigns a variable.
RECURSIVE Assigns(_)
Assigns(statements) ==
    \E k \in 1..Len(statements) :
       CASE statements[k][1] = "Expression" -> statements[k][2][1] = "Assignment"
         [] statements[k][1] = "Block" -> Assigns(statements[k][2])
         [] statements[k][1] \in {"While", "If"} -> Assigns(<<statements[k][3]>>)
         [] OTHER -> FALSE

Lookup(i, name) == Get(i.frames, i.environment, name)

\* What a top-level block left of the bindings seen from the enclosing frame:
\* the same current frame, and for every name the same outcome of Get, unless
\* the block assigns before it declares.
BlockKeepsOuter(block, before, after) ==
    /\ after.environment = before.environment
    /\ DOMAIN after.frames[Global].values = DOMAIN before.frames[Global].values
    /\ (~Assigns(block[2]) \/ (block[2] # <<>> /\ block[2][1][1] = "Var")) =>
          /\ \A name \in {"a", "b"} : Lookup(after, name) = Lookup(before, name)
          /\ \A e \in 1..Len(before.frames) : after.frames[e] = before.frames[e]

\* C13: a var inside a Block defines the name in the frame of the block only:
\* when the block has finished, Get from the enclosing frame yields the outer
\* binding with the value it had, if the block did not assign it, or fails
\* with "Undefined variable 'a'."; a var in the block that repeats the name
\* of an outer variable never changes the outer binding.
C13_BlockScope ==
    /\ [][Executing("Block") =>
            BlockKeepsOuter(interpreter.program[interpreter.next], interpreter.i, interpreter'.i)]_vars
    /\ [](/\ Interpreted(<<<<"Var", "a", One>>, <<"Block", <<<<"Var", "a", Two>>>>>>,
                           <<"Print", VariableA>>>>) =>
               interpreter.i.stdout = <<"1">> /\ interpreter.i.stderr = <<>>
          /\ Interpreted(<<<<"Block", <<<<"Var", "a", Two>>>>>>, <<"Print", VariableA>>>>) =>
               interpreter.i.stdout = <<>> /\ interpreter.i.stderr = <<Undefined("a")>>)

\* The block declared its own a in a frame of its own, and the outer a printed
\* afterwards still has its value.
C13_Witness ==
    /\ Interpreted(<<<<"Var", "a", One>>, <<"Block", <<<<"Var", "a", Two>>>>>>,
                     <<"Print", VariableA>>>>)
    /\ interpreter.i.stdout = <<"1">>
    /\ Len(interpreter.i.frames) = 2
    /\ interpreter.i.frames[2].values["a"] = Two[2]
    /\ interpreter.i.frames[Global].values["a"] = One[2]

\* C14: once the runtime-error flag is set it stays set; no later statement
\* of the block, loop or top-level list is executed, and no later print,
\* definition or assignment takes effect: stdout and every frame stay as
\* they were when the first error was reported, a while loop runs no further
\* body, and InterpretStatements has left its loop.
C14_ErrorStopsStatements ==
    /\ [][interpreter.i.hadRuntimeError => interpreter'.i.hadRuntimeError]_vars
    /\ [](interpreter.i.hadRuntimeError =>
             /\ interpreter.pc = "done"
             /\ Len(interpreter.i.executed) = interpreter.i.first.executed
             /\ interpreter.i.stdout = interpreter.i.first.stdout
             /\ interpreter.i.frames = interpreter.i.first.frames
             /\ interpreter.i.environment = Global)
    /\ [](~interpreter.i.hadRuntimeError => interpreter.i.stderr = <<>>)

\* The body of a loop raised the flag in its first turn: the second turn and
\* the statement after the loop were not run.
C14_Witness ==
    /\ Interpreted(<<<<"Var", "a", One>>, <<"While", VariableA, <<"Print", VariableB>>>>,
                     <<"Print", VariableA>>>>)
    /\ interpreter.i.hadRuntimeError
    /\ interpreter.i.iterations = 1
    /\ interpreter.i.stdout = <<>>
    /\ interpreter.i.stderr = <<Undefined("b")>>
    /\ interpreter.next = 3

(***************************************************************************)
(* Claims about the evaluation of expressions                              *)
(***************************************************************************)
\* C15: evaluation short-circuits on the first runtime error: once the first
\* offending operation has reported its error, no further sub-expression is
\* handed to Evaluate and no second diagnostic is written.
C15_NoEvaluationAfterError ==
    interpreter.i.hadRuntimeError =>
       /\ Len(interpreter.i.evaluated) = interpreter.i.first.evaluated
       /\ Len(interpreter.i.stderr) = 1

\* The left operand of a subtraction reported an undefined variable; the
\* right operand was evaluated all the same and the operator reported too.
C15_Witness ==
    /\ Interpreted(<<<<"Var", "a", Nil>>, <<"Print", <<"Binary", VariableB, "MINUS", One>>>>>>)
    /\ interpreter.i.stderr = <<Undefined("b"), "Operands must be numbers.">>
    /\ interpreter.i.evaluated[Len(interpreter.i.evaluated)] = One
    /\ interpreter.i.first.evaluated = 2

\* The program has printed a Logical expression, or stopped at its error.
PrintedLogical ==
    /\ interpreter.next = 3
    /\ interpreter.program[2][2][1] = "Logical"

\* The interpreter when the Logical expression printed has been handed to
\* Evaluate, and its left operand evaluated from there.
AtLogical ==
    The({[j EXCEPT !.executed = Append(@, interpreter.program[2]),
                   !.trace = Append(@, <<"execute", interpreter.program[2], j.environment>>),
                   !.evaluated = Append(@, interpreter.program[2][2])] :
         j \in {Execute(NewInterpreter, interpreter.program[1])}})
LeftOperand == Evaluate(AtLogical, interpreter.program[2][2][2])

ShortCircuits(operator, left) ==
    \/ operator = "OR" /\ isTruthy(left)
    \/ operator = "AND" /\ ~isTruthy(left)

\* The interpreter after print of a value that Evaluate returned.
PrintOf(v) ==
    IF v.i.hadRuntimeError THEN v.i ELSE [v.i EXCEPT !.stdout = Append(@, Stringify(v.value))]

\* What the claim says of a Logical expression, left being its left operand
\* evaluated: nothing but left has been evaluated and its value is the
\* result, or the right operand has been evaluated after it and gives the
\* result.
LogicalAsClaimed(left) ==
    IF ShortCircuits(interpreter.program[2][2][3], left.value)
    THEN interpreter.i = PrintOf(left)
    ELSE interpreter.i = PrintOf(Evaluate(left.i, interpreter.program[2][2][4]))

LogicalOf(left, operator, right) == <<"Logical", left, operator, right>>
AssignOne == <<"Assignment", "a", One>>

FunctionValue == NewLoxFunction(<<"Function", "a", <<>>, <<>>>>, Global)
ClassValue == NewLoxClass("b", EmptyScope)
InstanceValue == <<"instance", ClassValue, 3>>

\* The value of the NUMBER literal 1 and of the STRING literal "1.0", and
\* those of the STRING literals "1.00", "1", "a" and "".
OneText == String(<<"1", ".", "0">>)
OneZeroZeroText == String(<<"1", ".", "0", "0">>)
DigitText == String(<<"1">>)
LetterText == String(<<"a">>)
EmptyText == String(<<>>)

OperandValues ==
    {NilValue, Bool(TRUE), Bool(FALSE),
     Float64(<<1, 1>>), Float64(<<1, 2>>), Float64(NaN), Float64(<<1, 0>>),
     OneText, OneZeroZeroText, DigitText, LetterText, EmptyText,
     FunctionValue, ClassValue, InstanceValue}

InitOperator ==
    /\ \E left \in OperandValues, right \in OperandValues,
          operator \in {"EQUAL_EQUAL", "BANG_EQUAL", "PLUS"} :
          interpreter = [pc |-> "operands", operator |-> operator, left |-> left,
                         right |-> right, i |-> NewInterpreter, value |-> NilValue]
    /\ scanner = NewScanner(<<>>) /\ scanPc = "idle" /\ main = MainIdle
    /\ parser = Idle /\ parseOut = Idle /\ resolver = Idle

ApplyOperator ==
    /\ interpreter.pc = "operands"
    /\ \E v \in {BinaryOperator(interpreter.i, interpreter.operator,
                               interpreter.left, interpreter.right)} :
          interpreter' = [interpreter EXCEPT !.pc = "applied", !.i = v.i, !.value = v.value]
    /\ UNCHANGED <<scanner, scanPc, main, parseVars, resolver>>

SpecOperator == InitOperator /\ [][ApplyOperator]_vars

(***************************************************************************)
(* Claims about equality and addition                                      *)
(***************************************************************************)
Applied(operator) == interpreter.pc = "applied" /\ interpreter.operator = operator
NotANumber(value) == IsFloat64(value) /\ IsNaN(value[2])

\* C17: equality is reflexive: for every runtime value v that is not NaN
\* (nil, a boolean, a number, a string, a function, a class or an instance)
\* v == v yields true and v != v yields false.
C17_Reflexive ==
    (interpreter.pc = "applied" /\ interpreter.left = interpreter.right
       /\ ~NotANumber(interpreter.left)) =>
       /\ interpreter.operator = "EQUAL_EQUAL" => interpreter.value = Bool(TRUE)
       /\ interpreter.operator = "BANG_EQUAL" => interpreter.value = Bool(FALSE)

\* A function compared with itself has been found unequal.
C17_Witness ==
    /\ Applied("EQUAL_EQUAL")
    /\ interpreter.left = FunctionValue /\ interpreter.right = FunctionValue
    /\ interpreter.value = Bool(FALSE)

\* The kind of a value as the language has it: nil, boolean, number, string,
\* or a callable or instance.
KindOf(value) ==
    CASE value[1] = "nil" -> "nil"
      [] IsBool(value) -> "boolean"
      [] IsFloat64(value) -> "number"
      [] IsString(value) -> "string"
      [] OTHER -> value[1]

\* C18: == never raises a runtime error; values of different kinds are
\* unequal, so the value of a string literal that looks like a number is not
\* equal to the number of that spelling; two strings are equal exactly when
\* their characters are.
C18_SameKindOnly ==
    Applied("EQUAL_EQUAL") =>
       /\ ~interpreter.i.hadRuntimeError
       /\ KindOf(interpreter.left) # KindOf(interpreter.right) => interpreter.value = Bool(FALSE)
       /\ (IsString(interpreter.left) /\ IsString(interpreter.right)) =>
             (interpreter.value = Bool(TRUE) <=> interpreter.left[2] = interpreter.right[2])

\* The strings "1.00" and "1.0", of different characters, have been found
\* equal.
C18_Witness ==
    /\ Applied("EQUAL_EQUAL")
    /\ interpreter.left = OneZeroZeroText /\ interpreter.right = OneText
    /\ interpreter.value = Bool(TRUE)
    /\ ~interpreter.i.hadRuntimeError

Sum(left, right) == Float64(FloatAdd(toNumber(left), toNumber(right)))

MaxBody == 2    \* most statements in the body of f
MaxAfter == 2   \* most statements after the declaration of f

AssignNil == <<"Expression", <<"Assignment", "a", NilLiteral>>>>
BodyLeaves == {<<"Print", VariableA>>, AssignNil, <<"Var", "a", Two>>}

CallF(params) ==
    <<"Expression", <<"Call", <<"Variable", "f">>, [p \in 1..Len(params) |-> Two]>>>>
AfterLeaves(params) ==
    {CallF(params), AssignNil, <<"Print", VariableA>>,
     <<"Block", <<<<"Var", "a", Two>>, CallF(params)>>>>}

CallPrograms(body, after) ==
    UNION {{prelude \o <<<<"Function", "f", params, b>>>> \o rest,
            <<<<"Block", prelude \o <<<<"Function", "f", params, b>>>> \o rest>>>>} :
           <<prelude, params, b, rest>> \in
              UNION {{<<>>, <<<<"Var", "a", One>>>>} \X {ps} \X SeqsUpTo(BodyLeaves, body)
                       \X SeqsUpTo(AfterLeaves(ps), after) : ps \in {<<>>, <<"a">>}}}

InitCall == \E program \in CallPrograms(MaxBody, MaxAfter) : Interpreting(program)

SpecCall == InitCall /\ [][NextInterpret]_vars

(***************************************************************************)
(* Claims about calls                                                      *)
(***************************************************************************)
FunctionF(params, body) == <<"Function", "f", params, body>>

\* C20: every call of a user function runs the body in a fresh frame whose
\* parent is the closure of the function, never the caller's current frame;
\* parameter p is defined in the fresh frame with argument p; binding the
\* parameters changes no binding of the closure frame or of the caller's
\* frames; and a read of a closure variable in the body sees the value of
\* the time of the call.
C20_CallFrame ==
    /\ \A k \in 1..Len(interpreter.i.calls) :
          \A c \in {interpreter.i.calls[k]} :
             /\ c.environment = Len(c.before) + 1
             /\ Len(c.bound) = Len(c.before) + 1
             /\ c.bound[c.environment].enclosing = c.function[3]
             /\ DOMAIN c.bound[c.environment].values
                   = {c.function[2][3][p] : p \in 1..Len(c.function[2][3])}
             /\ \A p \in 1..Len(c.function[2][3]) :
                   c.bound[c.environment].values[c.function[2][3][p]] = c.arguments[p]
             /\ \A e \in 1..Len(c.before) : c.bound[e] = c.before[e]
    /\ interpreter.i.environment = Global
    /\ Interpreted(<<<<"Var", "a", One>>, FunctionF(<<>>, <<<<"Print", VariableA>>>>),
                     <<"Block", <<<<"Var", "a", Two>>, CallF(<<>>)>>>>>>) =>
          interpreter.i.stdout = <<"1">>
    /\ Interpreted(<<<<"Var", "a", One>>, FunctionF(<<>>, <<<<"Print", VariableA>>>>),
                     AssignNil, CallF(<<>>)>>) =>
          interpreter.i.stdout = <<"nil">>
    /\ Interpreted(<<<<"Var", "a", One>>, FunctionF(<<"a">>, <<AssignNil>>),
                     CallF(<<"a">>), <<"Print", VariableA>>>>) =>
          interpreter.i.stdout = <<"1">>

\* f, declared in a block that holds a, has been called from a nested block
\* with an a of its own: the new frame encloses the frame of the declaration
\* and not the caller's, and the body printed the a of the closure.
C20_Witness ==
    /\ Interpreted(<<<<"Block", <<<<"Var", "a", One>>,
                                  FunctionF(<<>>, <<<<"Print", VariableA>>>>),
                                  <<"Block", <<<<"Var", "a", Two>>, CallF(<<>>)>>>>>>>>>>)
    /\ Len(interpreter.i.calls) = 1
    /\ interpreter.i.calls[1].caller = 3
    /\ interpreter.i.calls[1].function[3] = 2
    /\ interpreter.i.frames[4].enclosing = 2
    /\ interpreter.i.stdout = <<"1">>

(***************************************************************************)
(* Programs with return: var a = 1; fun f(..) { .. } fun g() { .. } and    *)
(* calls of f and g.  The body of f is made of returns, prints and         *)
(* assignments inside blocks, if and while, after a guarded call of f      *)
(* itself or without one.                                                  *)
(***************************************************************************)
MaxReturnBody == 3  \* greatest weight of the body of f

CallOf(name, params) ==
    <<"Call", <<"Variable", name>>, [p \in 1..Len(params) |-> VariableA]>>
Return(value) == <<"Return", value>>

\* if (a) { a = nil; print f(..); a = 2; }
Recurse(params) ==
    <<"If", VariableA,
      <<"Block", <<AssignNil, <<"Print", CallOf("f", params)>>,
                   <<"Expression", <<"Assignment", "a", Two>>>>>>>>, Nil>>

ReturnLeaves == {Return(Nil), Return(VariableA), <<"Print", VariableA>>, AssignNil}

RECURSIVE ReturnGen(_), ReturnLists(_)
ReturnGen(n) ==
    IF n = 1 THEN ReturnLeaves
    ELSE {<<"Block", statements>> : statements \in ReturnLists(n - 1)}
         \cup {<<"While", VariableA, body>> : body \in ReturnGen(n - 1)}
         \cup {<<"If", VariableA, body, Nil>> : body \in ReturnGen(n - 1)}
ReturnLists(n) ==
    IF n = 0 THEN {<<>>}
    ELSE UNION {{<<s>> \o rest : s \in ReturnGen(k), rest \in ReturnLists(n - k)} : k \in 1..n}

\* The bodies of f: the lists, and the guarded call of f before a list.
ReturnBodies(params, most) ==
    UNION {ReturnLists(n) : n \in 0..most}
    \cup {<<Recurse(params)>> \o rest : rest \in UNION {ReturnLists(n) : n \in 0..(most - 2)}}

\* The body of g and the statements after the declarations.
Callers(params) ==
    {<<<<<<"Print", CallOf("f", params)>>, Return(Two)>>,
       <<<<"Print", CallOf("g", <<>>)>>, <<"Print", VariableA>>>>>>,
     <<<<Return(CallOf("f", params))>>,
       <<<<"Print", CallOf("g", <<>>)>>>>>>,
     <<<<>>,
       <<<<"Print", CallOf("f", params)>>, <<"Print", CallOf("f", params)>>>>>>}

ReturnProgram(params, body, caller) ==
    <<<<"Var", "a", One>>, <<"Function", "f", params, body>>,
      <<"Function", "g", <<>>, caller[1]>>>> \o caller[2]

ReturnPrograms(most) ==
    UNION {{ReturnProgram(params, body, caller) :
              body \in ReturnBodies(params, most),
              caller \in Callers(params)} :
           params \in {<<>>, <<"a">>}}

InitReturn == \E program \in ReturnPrograms(MaxReturnBody) : Interpreting(program)

SpecReturn == InitReturn /\ [][NextInterpret]_vars

(***************************************************************************)
(* Claims about return                                                     *)
(***************************************************************************)
WhileReturn == <<"While", VariableA, Return(VariableA)>>

\* C21: a return executed anywhere in a function body ends exactly the
\* innermost active call: the event after the panic is the return of that
\* call, so no statement runs in between; the call yields the carried value,
\* and nil when the body comes to its end; the current frame is the caller's
\* again and no panic is left, so the caller, an outer call included, goes
\* on; a panic that carries no return value goes on through the call.
C21_ReturnUnwinds ==
    /\ \A trace \in {interpreter.i.trace} : \A calls \in {interpreter.i.calls} :
          \A t \in 1..Len(trace) :
             /\ trace[t][1] = "panic" =>
                   \A open \in {trace[t][3]} :
                      /\ open # <<>>
                      /\ t < Len(trace)
                      /\ trace[t + 1] = <<"return", open[Len(open)],
                                          <<"ReturnValue", trace[t][2]>>, trace[t][2],
                                          calls[open[Len(open)]].caller, Nil>>
             /\ trace[t][1] = "return" =>
                   /\ trace[t][5] = calls[trace[t][2]].caller
                   /\ trace[t][3] = Nil => trace[t][4] = NilValue /\ trace[t][6] = Nil
                   /\ trace[t][3] # Nil /\ trace[t][3][1] = "ReturnValue" =>
                         trace[t][4] = trace[t][3][2] /\ trace[t][6] = Nil
                   /\ trace[t][3] # Nil /\ trace[t][3][1] # "ReturnValue" =>
                         trace[t][6] = trace[t][3]
    /\ Interpreted(ReturnProgram(<<>>, <<WhileReturn, <<"Print", VariableA>>>>,
                                 <<<<<<"Print", CallOf("f", <<>>)>>, Return(Two)>>,
                                   <<<<"Print", CallOf("g", <<>>)>>, <<"Print", VariableA>>>>>>)) =>
          interpreter.i.stdout = <<"1", "2", "1">> /\ interpreter.i.panic = Nil
    /\ \A params \in {<<>>, <<"a">>} :
          Interpreted(ReturnProgram(params, <<Recurse(params), Return(VariableA)>>,
                                    <<<<Return(CallOf("f", params))>>,
                                      <<<<"Print", CallOf("g", <<>>)>>>>>>)) =>
             interpreter.i.stdout = <<"nil", "2">> /\ interpreter.i.panic = Nil

\* f has returned from inside its while loop while g was calling it; g
\* printed the value, returned its own, and the program went on.
C21_Witness ==
    /\ Interpreted(ReturnProgram(<<>>, <<WhileReturn, <<"Print", VariableA>>>>,
                                 <<<<<<"Print", CallOf("f", <<>>)>>, Return(Two)>>,
                                   <<<<"Print", CallOf("g", <<>>)>>, <<"Print", VariableA>>>>>>))
    /\ \E t \in 1..Len(interpreter.i.trace) :
          /\ interpreter.i.trace[t][1] = "panic"
          /\ Len(interpreter.i.trace[t][3]) = 2
    /\ interpreter.i.stdout = <<"1", "2", "1">>

(***************************************************************************)
(* Classes and instances: the methods of LoxClass, LoxInstance and         *)
(* LoxFunction of ast.go applied, one at each step, to a class b declared  *)
(* in the global frame or in a block, and to its instances.                *)
(* interpreter.log keeps each operation with the interpreter before and    *)
(* after it.                                                               *)
(***************************************************************************)
MaxObjectOps == 3   \* operations in one run
MaxInstances == 2   \* instances created in one run

MethodM(params) == <<"Function", "m", params, <<<<"Print", VariableA>>>>>>
MethodInit(params) == <<"Function", "init", params, <<<<"Print", VariableA>>>>>>
ObjectMethods ==
    {<<>>, <<MethodM(<<>>)>>, <<MethodInit(<<>>)>>, <<MethodInit(<<"a">>)>>,
     <<MethodInit(<<>>), MethodM(<<>>)>>, <<MethodInit(<<"a">>), MethodM(<<"a">>)>>}

\* The map of the methods, each with the frame of the class declaration as
\* its closure.
MethodsOf(methods, closure) ==
    [name \in {methods[k][2] : k \in 1..Len(methods)} |->
        NewLoxFunction(The({methods[k] : k \in {k \in 1..Len(methods) : methods[k][2] = name}}),
                       closure)]

\* var a = 1; { var a = 2; .. }
ObjectFrames ==
    <<[values |-> Put(EmptyScope, "a", One[2]), enclosing |-> 0],
      [values |-> Put(EmptyScope, "a", Two[2]), enclosing |-> Global]>>

Event(op, target, name, given, v, arity, before) ==
    [op |-> op, target |-> target, name |-> name, given |-> given, value |-> v.value,
     arity |-> arity, before |-> before, after |-> v.i]

InitObject ==
    /\ \E methods \in ObjectMethods, closure \in {1, 2} :
          interpreter = [pc |-> "objects",
                         i |-> [NewInterpreter EXCEPT !.frames = ObjectFrames],
                         class |-> NewLoxClass("b", MethodsOf(methods, closure)),
                         log |-> <<>>]
    /\ scanner = NewScanner(<<>>) /\ scanPc = "idle" /\ main = MainIdle
    /\ parser = Idle /\ parseOut = Idle /\ resolver = Idle

\* b(..): the arity asked of the class and the call.
ClassCall ==
    /\ interpreter.pc = "objects"
    /\ Len(interpreter.log) < MaxObjectOps
    /\ Len(interpreter.i.instances) < MaxInstances
    /\ \E given \in {<<>>, <<Two[2]>>} :
          \E v \in {LoxClass_Call(interpreter.i, interpreter.class, given)} :
             interpreter' = [interpreter EXCEPT
                                !.i = v.i,
                                !.log = Append(@, Event("Call", Nil, "", given, v,
                                                        LoxClass_Arity(interpreter.class),
                                                        interpreter.i))]
    /\ UNCHANGED <<scanner, scanPc, main, parseVars, resolver>>

\* instance.name
InstanceGet ==
    /\ interpreter.pc = "objects"
    /\ Len(interpreter.log) < MaxObjectOps
    /\ \E id \in 1..Len(interpreter.i.instances), name \in {"init", "m", "x"} :
          \E instance \in {<<"instance", interpreter.class, id>>} :
             \E v \in {LoxInstance_Get(interpreter.i, instance, name)} :
                interpreter' = [interpreter EXCEPT
                                   !.i = v.i,
                                   !.log = Append(@, Event("Get", instance, name, <<>>, v, 0,
                                                           interpreter.i))]
    /\ UNCHANGED <<scanner, scanPc, main, parseVars, resolver>>

\* instance.x = 1
InstanceSet ==
    /\ interpreter.pc = "objects"
    /\ Len(interpreter.log) < MaxObjectOps
    /\ \E id \in 1..Len(interpreter.i.instances) :
          \E instance \in {<<"instance", interpreter.class, id>>} :
             \E v \in {Val(LoxInstance_Set(interpreter.i, instance, "x", One[2]), One[2])} :
                interpreter' = [interpreter EXCEPT
                                   !.i = v.i,
                                   !.log = Append(@, Event("Set", instance, "x", <<>>, v, 0,
                                                           interpreter.i))]
    /\ UNCHANGED <<scanner, scanPc, main, parseVars, resolver>>

\* The call of a function that an earlier instance.name has yielded, with
\* as many arguments as it has parameters.
MethodCall ==
    /\ interpreter.pc = "objects"
    /\ Len(interpreter.log) < MaxObjectOps
    /\ \E g \in 1..Len(interpreter.log) :
          /\ interpreter.log[g].op = "Get"
          /\ interpreter.log[g].value[1] = "function"
          /\ \E f \in {interpreter.log[g].value} :
                \E given \in {[p \in 1..Len(f[2][3]) |-> Two[2]]} :
                   \E v \in {LoxFunction_Call(interpreter.i, f, given)} :
                      interpreter' = [interpreter EXCEPT
                                         !.i = v.i,
                                         !.log = Append(@, Event("Invoke", interpreter.log[g].target,
                                                                 interpreter.log[g].name, given, v,
                                                                 0, interpreter.i))]
    /\ UNCHANGED <<scanner, scanPc, main, parseVars, resolver>>

NextObject == ClassCall \/ InstanceGet \/ InstanceSet \/ MethodCall

SpecObject == InitObject /\ [][NextObject]_vars

(***************************************************************************)
(* Claims about classes and instances                                      *)
(***************************************************************************)
\* The events of the log of one kind.
Events(op) == {k \in 1..Len(interpreter.log) : interpreter.log[k].op = op}

\* The events at which instance.name has bound a method.
Binds ==
    {k \in Events("Get") :
        /\ interpreter.log[k].name
              \notin DOMAIN interpreter.log[k].before.instances[interpreter.log[k].target[3]].fields
        /\ FindMethod(interpreter.class, interpreter.log[k].name) # Nil}

\* class b { m(a) { print this; } }
ThisMethodClass ==
    <<"Class", "b", <<<<"Function", "m", <<"a">>, <<<<"Print", This>>>>>>>>>>

\* C22: Bind(instance) returns a function of the same declaration whose
\* closure is a new frame that encloses the closure of the method and holds
\* this = instance and nothing else; the frames there were are unchanged;
\* two binds of a method to two instances give two closures; and in a call
\* of the bound method this is read one frame above the frame of the
\* parameters, the depth the resolver records for this in a method body.
C22_Bind ==
    /\ \A k \in Binds :
          \A ev \in {interpreter.log[k]} :
             \A method \in {FindMethod(interpreter.class, ev.name)} :
                /\ ev.value[1] = "function"
                /\ ev.value[2] = method[2]
                /\ ev.value[3] = Len(ev.before.frames) + 1
                /\ Len(ev.after.frames) = Len(ev.before.frames) + 1
                /\ ev.after.frames[Len(ev.after.frames)]
                      = [values |-> Put(EmptyScope, "this", ev.target), enclosing |-> method[3]]
                /\ SubSeq(ev.after.frames, 1, Len(ev.before.frames)) = ev.before.frames
    /\ \A k \in Binds, l \in Binds :
          /\ interpreter.log[k].name = interpreter.log[l].name
          /\ interpreter.log[k].target # interpreter.log[l].target
          => interpreter.log[k].value[3] # interpreter.log[l].value[3]
    /\ \A k \in Events("Invoke") :
          \A ev \in {interpreter.log[k]} :
             \A c \in {ev.after.calls[Len(ev.after.calls)]} :
                /\ "this" \in DOMAIN c.bound[c.bound[c.environment].enclosing].values
                /\ GetAt(c.bound, c.environment, 1, "this") = [value |-> ev.target, panic |-> Nil]
    /\ Resolve(NewResolver, <<ThisMethodClass>>).locals = <<[expr |-> This, depth |-> 1]>>

\* b().m has been called: the function called is the method itself with the
\* closure of the class declaration, no frame was made by the bind, and this
\* read one frame above the parameters is nil.
C22_Witness ==
    /\ Len(interpreter.log) = 3
    /\ interpreter.log[1].op = "Call"
    /\ interpreter.log[2].op = "Get" /\ interpreter.log[2].name = "m"
    /\ interpreter.log[2].value = FindMethod(interpreter.class, "m")
    /\ interpreter.log[2].after.frames = interpreter.log[2].before.frames
    /\ interpreter.log[3].op = "Invoke"
    /\ \E c \in {interpreter.i.calls[1]} :
          GetAt(c.bound, c.environment, 1, "this") = [value |-> NilValue, panic |-> Nil]
    /\ Resolve(NewResolver, <<ThisMethodClass>>).locals = <<[expr |-> This, depth |-> 1]>>

\* C23: a call of the class makes a new instance with an empty field table
\* that no other instance shares; when the class has init, init is called
\* with the arguments of the call before the instance is returned; and the
\* arity of the class is the number of parameters of init, 0 without init.
C23_ClassCall ==
    /\ \A k \in Events("Call") :
          \A ev \in {interpreter.log[k]} :
             \A init \in {FindMethod(interpreter.class, "init")} :
                /\ ev.value = <<"instance", interpreter.class, Len(ev.before.instances) + 1>>
                /\ ev.after.instances
                      = Append(ev.before.instances,
                               [class |-> interpreter.class, fields |-> EmptyScope])
                /\ ev.arity = IF init = Nil THEN 0 ELSE Len(init[2][3])
                /\ init # Nil /\ Len(ev.given) = Len(init[2][3]) =>
                      /\ Len(ev.after.calls) = Len(ev.before.calls) + 1
                      /\ ev.after.calls[Len(ev.after.calls)].function[2] = init[2]
                      /\ ev.after.calls[Len(ev.after.calls)].arguments = ev.given
                /\ init = Nil => ev.after.calls = ev.before.calls
    /\ \A k \in Events("Set") :
          \A ev \in {interpreter.log[k]} :
             \A id \in 1..Len(ev.before.instances) :
                id # ev.target[3] => ev.after.instances[id] = ev.before.instances[id]

\* class b { init(a) { print a; } } has been called with one argument: the
\* instance is there, the arity given was 0, and init has not run.
C23_Witness ==
    /\ FindMethod(interpreter.class, "init") # Nil
    /\ FindMethod(interpreter.class, "init")[2] = MethodInit(<<"a">>)
    /\ Len(interpreter.log) = 1
    /\ interpreter.log[1].op = "Call"
    /\ interpreter.log[1].given = <<Two[2]>>
    /\ interpreter.log[1].arity = 0
    /\ Len(interpreter.i.instances) = 1
    /\ interpreter.i.calls = <<>>
    /\ interpreter.i.stdout = <<>>

(***************************************************************************)
(* Programs of uses of a and of this in blocks, in functions f(a) and in   *)
(* methods m().                                                            *)
(***************************************************************************)
MaxScopes == 4      \* greatest weight of a program of uses and scopes

AssignOneToA == <<"Expression", <<"Assignment", "a", One>>>>
ScopeLeaves == {VarA, VarSelf, PrintA, AssignOneToA, <<"Print", This>>}

RECURSIVE ScopeGen(_), ScopeLists(_), ScopeMethods(_)
ScopeGen(n) ==
    IF n = 1 THEN ScopeLeaves
    ELSE {<<"Block", body>> : body \in ScopeLists(n - 1)}
         \cup {<<"Function", "f", <<"a">>, body>> : body \in ScopeLists(n - 1)}
         \cup {<<"Class", "b", methods>> : methods \in ScopeMethods(n - 1)}
ScopeLists(n) ==
    IF n = 0 THEN {<<>>}
    ELSE UNION {{<<s>> \o rest : s \in ScopeGen(k), rest \in ScopeLists(n - k)} : k \in 1..n}
ScopeMethods(n) ==
    IF n = 0 THEN {<<>>}
    ELSE UNION {{<<<<"Function", "m", <<>>, body>>>> \o rest :
                    body \in ScopeLists(k - 1), rest \in ScopeMethods(n - k)} : k \in 1..n}

ScopePrograms(most) == UNION {ScopeLists(n) : n \in 0..most}

InitResolveScopes ==
    /\ \E program \in ScopePrograms(MaxScopes) :
          resolver = [pc |-> "loop", program |-> program, next |-> 1, r |-> NewResolver]
    /\ scanner = NewScanner(<<>>) /\ scanPc = "idle" /\ main = MainIdle
    /\ parser = Idle /\ parseOut = Idle /\ interpreter = Idle

SpecResolveScopes == InitResolveScopes /\ [][NextResolve]_vars

(***************************************************************************)
(* Claims about depths                                                     *)
(***************************************************************************)
\* What the claim says is recorded, by where the nodes stand.  names is the
\* stack of the sets of names declared so far in the scopes that enclose
\* the node, the outermost first.
Holding(names, name) == {k \in 1..Len(names) : name \in names[k]}
Recorded(names, expr, name) ==
    IF Holding(names, name) = {} THEN <<>>
    ELSE <<[expr |-> expr,
            depth |-> Len(names) - 1
                      - ((CHOOSE k \in Holding(names, name) :
                             \A l \in Holding(names, name) : l <= k) - 1)]>>
Declaring(names, name) ==
    IF names = <<>> THEN names ELSE [names EXCEPT ![Len(names)] = @ \cup {name}]
ParamNames(params) == {params[p] : p \in 1..Len(params)}

RECURSIVE DepthsOfExpr(_, _, _), DepthsOf(_, _, _), DepthsOfMethods(_, _)
DepthsOfExpr(expr, names, inClass) ==
    CASE expr[1] = "Variable" -> Recorded(names, expr, expr[2])
      [] expr[1] = "Assignment" ->
            DepthsOfExpr(expr[3], names, inClass) \o Recorded(names, expr, expr[2])
      [] expr[1] = "This" -> IF inClass THEN Recorded(names, expr, "this") ELSE <<>>
      [] OTHER -> <<>>
DepthsOf(statements, names, inClass) ==
    IF statements = <<>> THEN <<>>
    ELSE LET stmt == Head(statements)
         IN  CASE stmt[1] = "Var" ->
                     (IF stmt[3] = Nil THEN <<>>
                      ELSE DepthsOfExpr(stmt[3], Declaring(names, stmt[2]), inClass))
                     \o DepthsOf(Tail(statements), Declaring(names, stmt[2]), inClass)
               [] stmt[1] \in {"Print", "Expression"} ->
                     DepthsOfExpr(stmt[2], names, inClass)
                     \o DepthsOf(Tail(statements), names, inClass)
               [] stmt[1] = "Block" ->
                     DepthsOf(stmt[2], Append(names, {}), inClass)
                     \o DepthsOf(Tail(statements), names, inClass)
               [] stmt[1] = "Function" ->
                     DepthsOf(stmt[4], Append(Declaring(names, stmt[2]), ParamNames(stmt[3])),
                              inClass)
                     \o DepthsOf(Tail(statements), Declaring(names, stmt[2]), inClass)
               [] stmt[1] = "Class" ->
                     DepthsOfMethods(stmt[3], Declaring(names, stmt[2]))
                     \o DepthsOf(Tail(statements), Declaring(names, stmt[2]), inClass)
DepthsOfMethods(methods, names) ==
    IF methods = <<>> THEN <<>>
    ELSE DepthsOf(Head(methods)[4],
                  Append(Append(names, {"this"}), ParamNames(Head(methods)[3])), TRUE)
         \o DepthsOfMethods(Tail(methods), names)


\* C24: the entries of locals are those of the Variable, Assignment and
\* accepted This nodes whose name some scope of the stack holds when the
\* node is resolved, in the order resolved, each with the depth
\* stack.len - 1 - i of the innermost such scope i; a name that no scope
\* holds gets no entry; and an entry once made is not changed by what is
\* resolved later, a later declaration of the name included.
C24_Depths ==
    /\ [](/\ resolver.r.locals = DepthsOf(ResolvedSoFar, <<>>, FALSE)
          /\ Resolved(<<FunctionF(<<"a">>, <<<<"Block", <<PrintA, VarA>>>>>>)>>) =>
                resolver.r.locals = <<[expr |-> VariableA, depth |-> 1]>>
          /\ Resolved(<<<<"Block", <<PrintA, VarA, AssignOneToA>>>>>>) =>
                resolver.r.locals = <<[expr |-> AssignOneToA[2], depth |-> 0]>>
          /\ Resolved(<<VarA, PrintA, AssignOneToA>>) => resolver.r.locals = <<>>)
    /\ [][SubSeq(resolver.r.locals', 1, Len(resolver.r.locals)) = resolver.r.locals]_vars

\* fun f(a) { { print a; var a; } } has been resolved: the use of a has the
\* depth of the parameter, 1, and the declaration after it in the block has
\* not changed it.
C24_Witness ==
    /\ Resolved(<<FunctionF(<<"a">>, <<<<"Block", <<PrintA, VarA>>>>>>)>>)
    /\ resolver.r.locals = <<[expr |-> VariableA, depth |-> 1]>>

(***************************************************************************)
(* Programs in which a declaration follows a function that uses the name:  *)
(* var a = 1; { fun f() { .. a .. } .. } and the same without the block.   *)
(* Each Variable and Assignment node carries, after the fields of the Go   *)
(* struct, a number that stands for the identity of the node.  Only        *)
(* programs that the resolver accepts are interpreted, as in main.         *)
(***************************************************************************)
MaxClosureRest == 3  \* statements after the declaration of f

VariableNode(name, id) == <<"Variable", name, id>>
ClosureBodies ==
    {<<<<"Print", VariableNode("a", 1)>>>>,
     <<<<"Expression", <<"Assignment", "a", NilLiteral, 1>>>>>>}

\* The p-th statement after the declaration: f(); or var a = 2; or print a;
ClosureStatement(kind, p) ==
    CASE kind = "call" -> <<"Expression", <<"Call", VariableNode("f", p + 1), <<>>>>>>
      [] kind = "var" -> <<"Var", "a", Two>>
      [] kind = "print" -> <<"Print", VariableNode("a", p + 1)>>

ClosureProgram(body, kinds, inBlock) ==
    IF inBlock
    THEN <<<<"Var", "a", One>>,
           <<"Block", <<FunctionF(<<>>, body)>>
                       \o [p \in 1..Len(kinds) |-> ClosureStatement(kinds[p], p)]>>>>
    ELSE <<<<"Var", "a", One>>, FunctionF(<<>>, body)>>
         \o [p \in 1..Len(kinds) |-> ClosureStatement(kinds[p], p)]

ClosurePrograms(most) ==
    {ClosureProgram(body, kinds, inBlock) :
       body \in ClosureBodies, kinds \in SeqsUpTo({"call", "var", "print"}, most),
       inBlock \in BOOLEAN}

InitClosure ==
    \E program \in ClosurePrograms(MaxClosureRest) :
       /\ ~Resolve(NewResolver, program).hadError
       /\ Interpreting(program)

SpecClosure == InitClosure /\ [][NextInterpret]_vars

(***************************************************************************)
(* Claims about resolved variables                                         *)
(***************************************************************************)
\* The depths that the resolver hands over for the program.
LocalsOf(program) ==
    {Resolve(NewResolver, program).locals[k] :
        k \in 1..Len(Resolve(NewResolver, program).locals)}

\* var a = 1; { fun f() { print a; } f(); var a = 2; f(); }
ShadowedLater ==
    ClosureProgram(<<<<"Print", VariableNode("a", 1)>>>>, <<"call", "var", "call">>, TRUE)

\* C25: a Variable or Assignment node with a recorded depth d reads or
\* writes the frame d links above the current frame, and a node without a
\* recorded depth the global frame only; so the a of the body of f is the
\* same binding at every call, also when a nearer a is declared between two
\* calls.
C25_ResolvedAccess ==
    /\ \A locals \in {LocalsOf(interpreter.program)} :
          \A k \in 1..Len(interpreter.i.accesses) :
             \A access \in {interpreter.i.accesses[k]} :
                \A depths \in {{l.depth : l \in {l \in locals : l.expr = access.expr}}} :
                   /\ depths # {} =>
                         \A d \in depths :
                            access.frame = ancestor(access.frames, access.environment, d)
                   /\ depths = {} =>
                         access.frame = IF access.expr[2] \in DOMAIN access.frames[Global].values
                                        THEN Global ELSE 0
    /\ Interpreted(ShadowedLater) => interpreter.i.stdout = <<"1", "1">>

\* f has been called before and after var a = 2; in the block in which it
\* was declared: the resolver recorded no depth for the a of the body, the
\* first call printed the global a and the second the a of the block.
C25_Witness ==
    /\ Interpreted(ShadowedLater)
    /\ \A l \in LocalsOf(ShadowedLater) : l.expr # VariableNode("a", 1)
    /\ interpreter.i.stdout = <<"1", "2">>
    /\ \E k \in 1..Len(interpreter.i.accesses) :
          /\ interpreter.i.accesses[k].expr = VariableNode("a", 1)
          /\ interpreter.i.accesses[k].frame = 2

(***************************************************************************)
(* Environment specification: one method of Environment applied to a frame *)
(* of a heap of frames.  Frame 1 is the global frame and every other frame *)
(* encloses an older one; frame k holds a = k, or a = k and b, or b only.  *)
(* The methods are applied to the names a and c with the value "v".        *)
(***************************************************************************)
MaxFrames == 3      \* frames in the heap

FrameValues(k) ==
    {Put(EmptyScope, "b", NilValue),
     Put(Put(EmptyScope, "a", Float64(<<k, 1>>)), "b", NilValue),
     Put(EmptyScope, "a", Float64(<<k, 1>>))}

RECURSIVE Heaps(_)
Heaps(n) ==
    IF n = 1 THEN {<<[values |-> v, enclosing |-> 0]>> : v \in FrameValues(1)}
    ELSE {Append(h, [values |-> v, enclosing |-> e]) :
            h \in Heaps(n - 1), v \in FrameValues(n), e \in 1..(n - 1)}

Written == String(<<"v">>)

InitEnvironment ==
    /\ \E n \in 1..MaxFrames : \E frames \in Heaps(n) :
          interpreter = [pc |-> "environment", frames |-> frames, op |-> "", e |-> 0,
                         name |-> "", distance |-> 0, before |-> frames, value |-> NilValue,
                         err |-> Nil, panic |-> Nil]
    /\ scanner = NewScanner(<<>>) /\ scanPc = "idle" /\ main = MainIdle
    /\ parser = Idle /\ parseOut = Idle /\ resolver = Idle

Applying(op, e, name, distance) ==
    [interpreter EXCEPT !.pc = "applied", !.op = op, !.e = e, !.name = name,
                        !.distance = distance]

EnvironmentGet ==
    /\ interpreter.pc = "environment"
    /\ \E e \in 1..Len(interpreter.frames), name \in {"a", "c"} :
          \E g \in {Get(interpreter.frames, e, name)} :
             interpreter' = [Applying("Get", e, name, 0) EXCEPT !.value = g.value, !.err = g.err]
    /\ UNCHANGED <<scanner, scanPc, main, parseVars, resolver>>

EnvironmentAssign ==
    /\ interpreter.pc = "environment"
    /\ \E e \in 1..Len(interpreter.frames), name \in {"a", "c"} :
          \E a \in {Assign(interpreter.frames, e, name, Written)} :
             interpreter' = [Applying("Assign", e, name, 0) EXCEPT
                                !.frames = a.frames, !.err = a.err]
    /\ UNCHANGED <<scanner, scanPc, main, parseVars, resolver>>

EnvironmentGetAt ==
    /\ interpreter.pc = "environment"
    /\ \E e \in 1..Len(interpreter.frames), name \in {"a", "c"}, distance \in 0..MaxFrames :
          \E g \in {GetAt(interpreter.frames, e, distance, name)} :
             interpreter' = [Applying("GetAt", e, name, distance) EXCEPT
                                !.value = g.value, !.panic = g.panic]
    /\ UNCHANGED <<scanner, scanPc, main, parseVars, resolver>>

EnvironmentAssignAt ==
    /\ interpreter.pc = "environment"
    /\ \E e \in 1..Len(interpreter.frames), name \in {"a", "c"}, distance \in 0..MaxFrames :
          \E a \in {AssignAt(interpreter.frames, e, distance, name, Written)} :
             interpreter' = [Applying("AssignAt", e, name, distance) EXCEPT
                                !.frames = a.frames, !.panic = a.panic]
    /\ UNCHANGED <<scanner, scanPc, main, parseVars, resolver>>

NextEnvironment ==
    EnvironmentGet \/ EnvironmentAssign \/ EnvironmentGetAt \/ EnvironmentAssignAt

SpecEnvironment == InitEnvironment /\ [][NextEnvironment]_vars

(***************************************************************************)
(* Claims about Environment                                                *)
(***************************************************************************)
\* The frames from e outward, e first.
RECURSIVE ChainOf(_, _)
ChainOf(frames, e) == IF e = 0 THEN <<>> ELSE <<e>> \o ChainOf(frames, frames[e].enclosing)

\* The places in the chain of the frames that hold the name.
Definers(frames, chain, name) ==
    {k \in 1..Len(chain) : name \in DOMAIN frames[chain[k]].values}
First(S) == CHOOSE k \in S : \A l \in S : k <= l

\* after is before but for the value of name in frame f.
OnlyWritten(before, after, f, name, value) ==
    /\ Len(after) = Len(before)
    /\ \A k \in 1..Len(before) : k # f => after[k] = before[k]
    /\ after[f].enclosing = before[f].enclosing
    /\ DOMAIN after[f].values = DOMAIN before[f].values \cup {name}
    /\ after[f].values[name] = value
    /\ \A n \in DOMAIN before[f].values : n # name => after[f].values[n] = before[f].values[n]

Ran(op) == interpreter.pc = "applied" /\ interpreter.op = op

\* C26: Assign overwrites the name in the nearest frame of the chain that
\* holds it and changes nothing else; when no frame of the chain holds the
\* name it returns "Undefined variable 'X'." and no frame is changed; Get
\* returns the value of that same nearest frame, or the same error.
C26_AssignNearest ==
    \A chain \in {IF interpreter.pc = "applied"
                   THEN ChainOf(interpreter.before, interpreter.e) ELSE <<>>} :
       \A definers \in {Definers(interpreter.before, chain, interpreter.name)} :
          /\ Ran("Assign") /\ definers # {} =>
                /\ interpreter.err = Nil
                /\ OnlyWritten(interpreter.before, interpreter.frames, chain[First(definers)],
                               interpreter.name, Written)
                /\ interpreter.name \in DOMAIN interpreter.before[chain[First(definers)]].values
          /\ Ran("Assign") /\ definers = {} =>
                /\ interpreter.err
                      = <<"error", "Undefined variable '" \o interpreter.name \o "'.">>
                /\ interpreter.frames = interpreter.before
          /\ Ran("Get") /\ definers # {} =>
                /\ interpreter.err = Nil
                /\ interpreter.value
                      = interpreter.before[chain[First(definers)]].values[interpreter.name]
                /\ interpreter.frames = interpreter.before
          /\ Ran("Get") /\ definers = {} =>
                /\ interpreter.err
                      = <<"error", "Undefined variable '" \o interpreter.name \o "'.">>
                /\ interpreter.frames = interpreter.before

\* a has been assigned from frame 3, which does not hold it; frame 2, the
\* nearest that does, has the new value and the global a is as it was.
C26_Witness ==
    /\ Ran("Assign")
    /\ interpreter.e = 3 /\ interpreter.name = "a"
    /\ ChainOf(interpreter.before, 3) = <<3, 2, 1>>
    /\ "a" \notin DOMAIN interpreter.before[3].values
    /\ "a" \in DOMAIN interpreter.before[1].values
    /\ "a" \in DOMAIN interpreter.before[2].values
    /\ interpreter.before[2].values["a"] = Float64(<<2, 1>>)
    /\ interpreter.frames[2].values["a"] = Written
    /\ interpreter.frames[1] = interpreter.before[1]
    /\ interpreter.frames[3] = interpreter.before[3]

\* C27: when the chain has a frame d links from the receiver, GetAt(d, name)
\* reads the name in that frame and AssignAt(d, name, v) writes it there,
\* whatever the nearer and the farther frames hold; AssignAt changes
\* nothing but that entry of that frame, and GetAt changes nothing.
C27_AtDistance ==
    \A chain \in {IF interpreter.pc = "applied"
                   THEN ChainOf(interpreter.before, interpreter.e) ELSE <<>>} :
       /\ Ran("GetAt") /\ interpreter.distance < Len(chain) =>
             \A f \in {chain[interpreter.distance + 1]} :
                /\ interpreter.panic = Nil
                /\ interpreter.name \in DOMAIN interpreter.before[f].values =>
                      interpreter.value = interpreter.before[f].values[interpreter.name]
                /\ interpreter.frames = interpreter.before
       /\ Ran("AssignAt") /\ interpreter.distance < Len(chain) =>
             /\ interpreter.panic = Nil
             /\ OnlyWritten(interpreter.before, interpreter.frames,
                            chain[interpreter.distance + 1], interpreter.name, Written)

\* a has been written one link above frame 3 while frames 3, 2 and 1 all
\* hold a: frame 2 has the new value, frames 3 and 1 are as they were.
C27_Witness ==
    /\ Ran("AssignAt")
    /\ interpreter.e = 3 /\ interpreter.name = "a" /\ interpreter.distance = 1
    /\ ChainOf(interpreter.before, 3) = <<3, 2, 1>>
    /\ \A k \in 1..3 : "a" \in DOMAIN interpreter.before[k].values
    /\ interpreter.before[2].values["a"] = Float64(<<2, 1>>)
    /\ interpreter.frames[2].values["a"] = Written
    /\ interpreter.frames[1] = interpreter.before[1]
    /\ interpreter.frames[3] = interpreter.before[3]

(***************************************************************************)
(* Programs of blocks that are left in every way: var a = 1;               *)
(* fun f() { .. } and statements that call f from blocks.  The body of f   *)
(* is made of prints, declarations, returns and a read of the undefined b, *)
(* inside blocks and conditionals.                                         *)
(***************************************************************************)
MaxBlockBody == 3  \* greatest weight of the body of f

BlockLeaves ==
    {<<"Print", VariableA>>, <<"Var", "a", Two>>, <<"Print", VariableB>>, Return(VariableA)}

RECURSIVE BlockGen(_), BlockLists(_)
BlockGen(n) ==
    IF n = 1 THEN BlockLeaves
    ELSE {<<"Block", statements>> : statements \in BlockLists(n - 1)}
         \cup {<<"If", VariableA, body, Nil>> : body \in BlockGen(n - 1)}
BlockLists(n) ==
    IF n = 0 THEN {<<>>}
    ELSE UNION {{<<s>> \o rest : s \in BlockGen(k), rest \in BlockLists(n - k)} : k \in 1..n}

\* The statements after the declarations.
BlockCallers ==
    {<<<<"Print", CallOf("f", <<>>)>>, <<"Print", VariableA>>>>,
     <<<<"Block", <<<<"Print", VariableA>>, <<"Var", "a", Two>>>>>>,
       <<"Block", <<<<"Var", "a", Two>>, <<"Print", CallOf("f", <<>>)>>,
                    <<"Block", <<<<"Print", VariableB>>>>>>>>>>,
       <<"Print", VariableA>>>>,
     <<<<"Block", <<<<"Block", <<<<"Print", VariableA>>, <<"Print", VariableA>>>>>>,
                    <<"Block", <<<<"Print", VariableB>>>>>>,
                    <<"Print", VariableA>>>>>>,
       <<"Print", VariableA>>>>,
     <<<<"Block", <<>>>>,
       <<"If", VariableA, <<"Block", <<<<"Print", CallOf("f", <<>>)>>,
                                       <<"Print", CallOf("f", <<>>)>>>>>>, Nil>>>>}

BlockProgram(body, rest) ==
    <<<<"Var", "a", One>>, <<"Function", "f", <<>>, body>>>> \o rest

BlockPrograms(most) ==
    {BlockProgram(body, rest) :
       body \in UNION {BlockLists(n) : n \in 0..most}, rest \in BlockCallers}

InitBlock == \E program \in BlockPrograms(MaxBlockBody) : Interpreting(program)

SpecBlock == InitBlock /\ [][NextInterpret]_vars

(***************************************************************************)
(* Claims about blocks                                                     *)
(***************************************************************************)
\* The event at t lies in a call made after s and not yet back at t.
InCall(trace, s, t) ==
    \E c \in (s + 1)..(t - 1) :
       /\ trace[c][1] = "call"
       /\ \A r \in (c + 1)..(t - 1) : ~(trace[r][1] = "return" /\ trace[r][2] = trace[c][2])

\* The event at t lies in a block entered after b was.
InBlock(blocks, b, t) ==
    \E n \in 1..Len(blocks) :
       /\ blocks[n].from > b.from \/ (blocks[n].from = b.from /\ blocks[n].to < b.to)
       /\ blocks[n].from < t /\ t <= blocks[n].to
       /\ blocks[n].to <= b.to

\* C28: a Block runs its statements in a new frame whose parent is the
\* frame current at entry, and whichever way the block is left (its
\* statements done, a runtime error, a return on its way to the call) the
\* current frame is the frame of entry again; between two top-level
\* statements, and after the last, the current frame is the global frame.
C28_BlockRestores ==
    /\ \A trace \in {interpreter.i.trace} : \A blocks \in {interpreter.i.blocks} :
          \A n \in 1..Len(blocks) : \A b \in {blocks[n]} :
             /\ b.parent = b.entry
             /\ b.frame # b.entry
             /\ \A m \in 1..Len(blocks) : m # n => blocks[m].frame # b.frame
             /\ b.exit = b.entry
             /\ \A t \in (b.from + 1)..b.to :
                   trace[t][1] = "execute" /\ ~InCall(trace, b.from, t)
                   /\ ~InBlock(blocks, b, t) => trace[t][3] = b.frame
             /\ b.statements # <<>> =>
                   b.to > b.from /\ trace[b.from + 1] = <<"execute", b.statements[1], b.frame>>
    /\ interpreter.i.environment = Global

\* A block of f was left by a return on its way to the call, a block by a
\* runtime error, and a block of two statements by coming to its end.
C28_Witness ==
    /\ interpreter.pc = "done"
    /\ \E b \in 1..Len(interpreter.i.blocks) :
          /\ interpreter.i.blocks[b].panic # Nil
          /\ interpreter.i.blocks[b].panic[1] = "ReturnValue"
          /\ interpreter.i.blocks[b].entry # Global
    /\ \E b \in 1..Len(interpreter.i.blocks) :
          /\ interpreter.i.blocks[b].hadRuntimeError
          /\ interpreter.i.blocks[b].statements # <<>>
    /\ \E b \in 1..Len(interpreter.i.blocks) :
          /\ interpreter.i.blocks[b].panic = Nil
          /\ ~interpreter.i.blocks[b].hadRuntimeError
          /\ Len(interpreter.i.blocks[b].statements) = 2

(***************************************************************************)
(* ParseStatements with its loop run to the end: an iteration is taken     *)
(* whenever one can be.                                                    *)
(***************************************************************************)
SpecParseFair == SpecParse /\ WF_vars(NextParse)

\* The index of the EOF token, counted from 0 as current is.
IndexOfEOF(p) == Len(p.tokens) - 1

\* The cursor and the calls of previous() of a parser are in range, and
\* each iteration of the loop of blockStatement has moved the cursor.
CursorInRange(p) ==
    /\ p.tokens[Len(p.tokens)].Type = "EOF"
    /\ p.current \in 0..IndexOfEOF(p)
    /\ \A c \in p.previousAt : c \in 1..IndexOfEOF(p)
    /\ \A n \in 1..Len(p.blockSteps) : p.blockSteps[n][2] > p.blockSteps[n][1]

\* C29: on a token list that ends with EOF the cursor stays between 0 and
\* the index of EOF, in ParseStatements and in Parse; previous() is never
\* called with current = 0; each iteration of the loop of ParseStatements
\* and of the loop of blockStatement leaves the cursor further than it found
\* it, the iterations that recover from a panic included; and
\* ParseStatements comes to its return.
C29_ParserProgress ==
    /\ [](/\ CursorInRange(parser)
          /\ CursorInRange(Parse(NewParser(parser.tokens)).p)
          /\ parseOut.pc # "panicked")
    /\ [][parseOut'.declarations # parseOut.declarations =>
             /\ parser'.current > parser.current
             /\ Len(parseOut'.declarations) = Len(parseOut.declarations) + 1]_vars
    /\ <>(parseOut.pc = "done" /\ isAtEnd(parser))

\* { = } was parsed: the declaration inside the block panicked at = and
\* synchronize skipped to EOF, the block then panicked for its brace, and
\* synchronize called advance at EOF where the cursor stayed.
C29_Witness ==
    /\ parseOut.pc = "done"
    /\ [k \in 1..Len(parser.tokens) |-> parser.tokens[k].Type]
          = <<"LEFT_BRACE", "EQUAL", "RIGHT_BRACE", "EOF">>
    /\ parser.blockSteps = <<<<1, 3>>>>
    /\ parser.current = 3
    /\ parser.previousAt = {1, 2, 3}
    /\ Len(parser.errors) = 2
    /\ parseOut.statements = <<>>

(***************************************************************************)
(* Claims about the balance of the resolver                                *)
(***************************************************************************)
\* The scopes a list of statements has the resolver begin: one for a block,
\* one for a function, and for a method one for this and one for the
\* function.
RECURSIVE ScopesBegun(_), ScopesBegunByMethods(_)
ScopesBegun(statements) ==
    IF statements = <<>> THEN 0
    ELSE ScopesBegun(Tail(statements))
         + (CASE Head(statements)[1] = "Block" -> 1 + ScopesBegun(Head(statements)[2])
              [] Head(statements)[1] = "Function" -> 1 + ScopesBegun(Head(statements)[4])
              [] Head(statements)[1] = "Class" -> ScopesBegunByMethods(Head(statements)[3])
              [] OTHER -> 0)
ScopesBegunByMethods(methods) ==
    IF methods = <<>> THEN 0
    ELSE 2 + ScopesBegun(Head(methods)[4]) + ScopesBegunByMethods(Tail(methods))

Brackets(brackets, t, kind) == Cardinality({k \in 1..t : brackets[k] = kind})

\* C30: after each statement of the list resolved, and so when Resolve
\* returns, the scope stack is empty and currentFunction and currentClass
\* are NONE again, errors or not; the scopes begun are one for each block
\* and function and two for each method, no scope is ended that was not
\* begun, and each one begun has been ended; the error flag is set exactly
\* if an error was reported, and stays set.
C30_Balanced ==
    /\ [](\A r \in {resolver.r} :
             /\ r.scopes = <<>>
             /\ r.currentFunction = "NONE_FUNCTION"
             /\ r.currentClass = "NONE_CLASS"
             /\ \A t \in 1..Len(r.brackets) :
                   Brackets(r.brackets, t, "end") <= Brackets(r.brackets, t, "begin")
             /\ Brackets(r.brackets, Len(r.brackets), "begin") = ScopesBegun(ResolvedSoFar)
             /\ Brackets(r.brackets, Len(r.brackets), "end") = ScopesBegun(ResolvedSoFar)
             /\ r.hadError <=> r.errors # <<>>)
    /\ [][resolver.r.hadError => resolver'.r.hadError]_vars

\* A class with a method that declares a twice has been resolved: the scope
\* of this and the scope of the function were begun and ended, and the
\* error was reported.
C30_Witness ==
    /\ resolver.pc = "done"
    /\ resolver.program = <<<<"Class", "b", <<<<"Function", "m", <<>>, <<VarA, VarA>>>>>>>>>>
    /\ resolver.r.brackets = <<"begin", "begin", "end", "end">>
    /\ Len(resolver.r.errors) = 1
    /\ resolver.r.hadError

(***************************************************************************)
(* Scanner specification                                                   *)
(***************************************************************************)
InitScan ==
    /\ \E src \in Sources(MaxSrcLen) : scanner = NewScanner(src)
    /\ scanPc = "loop"
    /\ main = MainIdle
    /\ parser = Idle /\ parseOut = Idle /\ resolver = Idle /\ interpreter = Idle

ScanToken == ScanStep /\ UNCHANGED <<main, parseVars, resolver, interpreter>>
ScanEOF == ScanFinish /\ UNCHANGED <<main, parseVars, resolver, interpreter>>

NextScan == ScanToken \/ ScanEOF

SpecScan == InitScan /\ [][NextScan]_vars

=============================================================================
